---- MODULE Spec2Model ----
(***************************************************************************)
(* Kodeq / Reelia live-coding runtime.                                     *)
(*                                                                         *)
(* Part I  : Environment (variable table, deferred-event queue, tick) and  *)
(*           the runtime objects it owns (CountObject, SeqObject,          *)
(*           MIDINoteObject, MIDISeqObject).       specification EnvSpec   *)
(* Part II : MIDIManager (message queue, consumer thread, sink).           *)
(*                        specifications MidiSpec, MidiFairSpec, SendSpec  *)
(***************************************************************************)
EXTENDS Integers, Sequences, FiniteSets, TLC

(***************************************************************************)
(* Bounds of the model.                                                    *)
(***************************************************************************)
MaxTicks == 3
MaxLines == 3

(***************************************************************************)
(* C++ integer helpers.                                                    *)
(***************************************************************************)
\* C++ % truncates towards zero
CRem(a, b) ==
  IF a >= 0 THEN a % (IF b < 0 THEN -b ELSE b)
  ELSE -((-a) % (IF b < 0 THEN -b ELSE b))

\* the bounds of int
IntMax == 2 ^ 30 - 1 + 2 ^ 30
IntMin == -IntMax - 1

\* a + b leaves the range of int
SumOverflows(a, b) ==
  \/ b > 0 /\ a > IntMax - b
  \/ b < 0 /\ a < IntMin - b
\* a + b as a two's complement add computes it: modulo 2^32
IntSum(a, b) ==
  IF b > 0 /\ a > IntMax - b THEN (a - IntMax - 1) + (b - IntMax - 1)
  ELSE IF b < 0 /\ a < IntMin - b THEN (a + IntMax + 1) + (b + IntMax + 1)
  ELSE a + b

\* bit i of a two's complement int: (p & (1 << i)) != 0
BitNext(p, i) == (p \div (2 ^ (i + 1))) % 2
Bit(p, i) == (p \div (2 ^ i)) % 2

\* x & 0x0F, x & 0x7F on a two's complement int
And0F(x) == x % 16
And7FNone(x) == x
And7F(x) == x % 128

(***************************************************************************)
(* Part I.  State of the Environment.                                      *)
(***************************************************************************)
VARIABLES
  variables,      \* Environment::variables, name -> object (NoObj: unbound)
  eventQueue,     \* Environment::eventQueue
  tickCounter,    \* Environment::tickCounter
  currentEvents,  \* tick(): local currentEvents, the events still to run
  pc,             \* position of the parse/tick thread
  nextInst,       \* allocation counter: identity of the next new object
  tickNo,         \* history: number of tick() calls started
  evInfo,         \* history: per event id, when enqueued and when executed
  midiCalls,      \* history: calls the objects made to getMIDIManager()
  noteTrig,       \* history: per name, the last trigger applied to it
  nLines          \* history: number of lines entered

envVars == <<variables, eventQueue, tickCounter, currentEvents, pc, nextInst,
             tickNo, evInfo, midiCalls, noteTrig, nLines>>

Names == {"a", "b"}
\* std::map iterates in key order
NameOrder == <<"a", "b">>

NoObj == [type |-> "none", inst |-> 0]

(***************************************************************************)
(* Runtime objects as constructed (base_object.hpp, midi_object.hpp).      *)
(***************************************************************************)
NewIntObject(i) == [type |-> "int", inst |-> i, value |-> 0]

NewBinaryPatternObject(i) == [type |-> "binary", inst |-> i, pattern |-> 0]

NewSeqObject(i) ==
  [type |-> "seq", inst |-> i, data |-> [k \in 0..15 |-> 0], position |-> 0,
   length |-> 8, playing |-> FALSE]

NewCountObject(i) ==
  [type |-> "count", inst |-> i, value |-> 0, max |-> 16, min |-> 0,
   step |-> 1, running |-> FALSE]

NewMIDINoteObject(i) ==
  [type |-> "midi_note", inst |-> i, channel |-> 0, note |-> 60,
   velocity |-> 100, duration |-> 1, durationCount |-> 0, isPlaying |-> FALSE]

NewMIDICCObject(i) ==
  [type |-> "midi_cc", inst |-> i, channel |-> 0, controller |-> 1, value |-> 0]

NewMIDISeqObject(i) ==
  [type |-> "midi_seq", inst |-> i, data |-> [k \in 0..15 |-> 0],
   position |-> 0, length |-> 8, playing |-> FALSE, midiChannel |-> 0,
   notes |-> [k \in 0..15 |-> 60], velocity |-> 100, midiEnabled |-> TRUE]

Types == {"int", "seq", "count", "binary", "midi_note", "midi_cc", "midi_seq"}

\* ObjectFactory::createObject
createObject(type, i) ==
  CASE type = "int" -> NewIntObject(i)
    [] type = "seq" -> NewSeqObject(i)
    [] type = "count" -> NewCountObject(i)
    [] type = "binary" -> NewBinaryPatternObject(i)
    [] type = "midi_note" -> NewMIDINoteObject(i)
    [] type = "midi_cc" -> NewMIDICCObject(i)
    [] type = "midi_seq" -> NewMIDISeqObject(i)

\* BaseObject::clone of the seven classes: a new object of the class, every
\* data member assigned from this
clone(o, i) ==
  CASE o.type = "int" -> [NewIntObject(i) EXCEPT !.value = o.value]
    [] o.type = "binary" -> [NewBinaryPatternObject(i) EXCEPT !.pattern = o.pattern]
    [] o.type = "seq" ->
         [NewSeqObject(i) EXCEPT !.data = o.data, !.position = o.position,
                                 !.length = o.length, !.playing = o.playing]
    [] o.type = "count" ->
         [NewCountObject(i) EXCEPT !.value = o.value, !.max = o.max, !.min = o.min,
                                   !.step = o.step, !.running = o.running]
    [] o.type = "midi_note" ->
         [NewMIDINoteObject(i) EXCEPT !.channel = o.channel, !.note = o.note,
                                      !.velocity = o.velocity, !.duration = o.duration,
                                      !.durationCount = o.durationCount,
                                      !.isPlaying = o.isPlaying]
    [] o.type = "midi_cc" ->
         [NewMIDICCObject(i) EXCEPT !.channel = o.channel,
                                    !.controller = o.controller, !.value = o.value]
    [] o.type = "midi_seq" ->
         [NewMIDISeqObject(i) EXCEPT !.data = o.data, !.position = o.position,
                                     !.length = o.length, !.playing = o.playing,
                                     !.midiChannel = o.midiChannel, !.notes = o.notes,
                                     !.velocity = o.velocity,
                                     !.midiEnabled = o.midiEnabled]

IsSeq(o) == o.type \in {"seq", "midi_seq"}

\* a call of an object into the MIDI manager (sendNoteOn / sendNoteOff / sendCC)
MidiCall(op, ch, d1, d2, who, via) ==
  [op |-> op, channel |-> ch, data1 |-> d1, data2 |-> d2, by |-> who, via |-> via]

(***************************************************************************)
(* setAttribute of every object variant.  The result is                    *)
(* [ok, obj, calls]: ok = FALSE models the std::runtime_error thrown for an *)
(* unknown attribute; calls are the MIDI manager calls made.               *)
(***************************************************************************)
SetOk(o) == [ok |-> TRUE, obj |-> o, calls |-> <<>>]
SetThrow(o) == [ok |-> FALSE, obj |-> o, calls |-> <<>>]

\* IntObject::setAttribute
IntSetAttribute(o, name, v) == SetThrow(o)

\* BinaryPatternObject::setAttribute
BinarySetAttribute(o, name, v) ==
  IF name = "value" THEN SetOk([o EXCEPT !.pattern = v]) ELSE SetThrow(o)

\* SeqObject::setAttribute
SeqSetAttribute(o, name, v) ==
  CASE name = "data" ->
         SetOk([o EXCEPT !.data = [k \in 0..15 |->
                   IF k < 8 THEN Bit(v, k) ELSE o.data[k]]])
    [] name \in {"pos", "position"} ->
         SetOk([o EXCEPT !.position = CRem(v, 16)])
    [] name = "length" ->
         SetOk([o EXCEPT !.length = IF v > 16 THEN 16 ELSE IF v < 1 THEN 1 ELSE v])
    [] name = "step" ->
         SetOk([o EXCEPT !.data[And0F(v)] = (v \div 16) % 256])
    [] OTHER -> SetThrow(o)

\* CountObject::setAttribute
CountSetAttribute(o, name, v) ==
  CASE name = "value" -> SetOk([o EXCEPT !.value = v])
    [] name = "max" -> SetOk([o EXCEPT !.max = v])
    [] name = "min" -> SetOk([o EXCEPT !.min = v])
    [] name = "step" -> SetOk([o EXCEPT !.step = v])
    [] OTHER -> SetThrow(o)

\* MIDINoteObject::setAttribute
MIDINoteSetAttributeRaw(o, name, v) ==
  CASE name = "channel" -> SetOk([o EXCEPT !.channel = v])
    [] name = "note" -> SetOk([o EXCEPT !.note = v])
    [] name = "velocity" -> SetOk([o EXCEPT !.velocity = v])
    [] name = "duration" -> SetOk([o EXCEPT !.duration = v])
    [] OTHER -> SetThrow(o)
MIDINoteSetAttribute(o, name, v) ==
  CASE name = "channel" -> SetOk([o EXCEPT !.channel = And0F(v)])
    [] name = "note" -> SetOk([o EXCEPT !.note = And7F(v)])
    [] name = "velocity" -> SetOk([o EXCEPT !.velocity = And7F(v)])
    [] name = "duration" -> SetOk([o EXCEPT !.duration = IF v < 1 THEN 1 ELSE v])
    [] OTHER -> SetThrow(o)

\* MIDICCObject::setAttribute: assigning value sends the CC at once
MIDICCSetAttribute(o, name, v) ==
  CASE name = "channel" -> SetOk([o EXCEPT !.channel = And0F(v)])
    [] name \in {"controller", "cc"} -> SetOk([o EXCEPT !.controller = And7F(v)])
    [] name = "value" ->
         [ok |-> TRUE, obj |-> [o EXCEPT !.value = And7F(v)],
          calls |-> <<MidiCall("CC", o.channel, o.controller, And7F(v),
                               o.inst, "setAttribute")>>]
    [] OTHER -> SetThrow(o)

\* the attribute names note_<k> whose std::stoi(k) is a step of the note table
NoteStepNames ==
  <<"note_0", "note_1", "note_2", "note_3", "note_4", "note_5", "note_6",
    "note_7", "note_8", "note_9", "note_10", "note_11", "note_12", "note_13",
    "note_14", "note_15">>
\* note_<k> names that are accepted and ignored: step out of range, stoi throws
NoteIgnoredNames == {"note_16", "note_x"}
NoteStep(name) == CHOOSE k \in 0..15 : NoteStepNames[k + 1] = name

\* MIDISeqObject::setAttribute
MIDISeqSetAttribute(o, name, v) ==
  CASE name = "midi_channel" -> SetOk([o EXCEPT !.midiChannel = And0F(v)])
    [] name = "midi_velocity" -> SetOk([o EXCEPT !.velocity = And7F(v)])
    [] name = "midi_enable" -> SetOk([o EXCEPT !.midiEnabled = (v > 0)])
    [] name = "note_map" ->
         SetOk([o EXCEPT !.notes = [k \in 0..15 |->
                   IF k < 8 THEN (IF Bit(v, k) = 1 THEN 60 + k ELSE -1)
                            ELSE o.notes[k]]])
    [] name = "note_base" ->
         SetOk([o EXCEPT !.notes = [k \in 0..15 |->
                   IF o.notes[k] >= 0 THEN And7F(v) + k ELSE o.notes[k]]])
    [] name \in {NoteStepNames[k] : k \in 1..16} ->
         SetOk([o EXCEPT !.notes[NoteStep(name)] = And7F(v)])
    [] name \in NoteIgnoredNames -> SetOk(o)
    [] OTHER -> SeqSetAttribute(o, name, v)

\* BaseObject::setAttribute, virtual dispatch on the object's class
setAttribute(o, name, v) ==
  CASE o.type = "int" -> IntSetAttribute(o, name, v)
    [] o.type = "binary" -> BinarySetAttribute(o, name, v)
    [] o.type = "seq" -> SeqSetAttribute(o, name, v)
    [] o.type = "count" -> CountSetAttribute(o, name, v)
    [] o.type = "midi_note" -> MIDINoteSetAttribute(o, name, v)
    [] o.type = "midi_cc" -> MIDICCSetAttribute(o, name, v)
    [] o.type = "midi_seq" -> MIDISeqSetAttribute(o, name, v)

(***************************************************************************)
(* getAttribute of every object variant.  The result is [ok, cls, v]:      *)
(* ok = FALSE models the std::runtime_error thrown, cls and v are the      *)
(* class and the value of the object returned.                             *)
(***************************************************************************)
GetInt(v) == [ok |-> TRUE, cls |-> "int", v |-> v]
GetThrow == [ok |-> FALSE, cls |-> "none", v |-> 0]

\* IntObject::getAttribute
IntGetAttribute(o, name) == GetThrow

\* BinaryPatternObject::getAttribute
BinaryGetAttribute(o, name) ==
  IF name = "value" THEN GetInt(o.pattern) ELSE GetThrow

\* SeqObject::getAttribute, "data": bit i of the pattern is set when data[i] > 0
RECURSIVE PatternOf(_, _)
PatternOf(data, i) ==
  IF i >= 8 THEN 0
  ELSE (IF data[i] > 0 THEN 2 ^ i ELSE 0) + PatternOf(data, i + 1)

\* SeqObject::getAttribute
SeqGetAttribute(o, name) ==
  CASE name = "data" -> [ok |-> TRUE, cls |-> "binary", v |-> PatternOf(o.data, 0)]
    [] name \in {"pos", "position"} -> GetInt(o.position)
    [] name = "length" -> GetInt(o.length)
    [] name = "step" ->
         GetInt(IF o.position \in 0..15 THEN o.data[o.position] ELSE 0)
    [] OTHER -> GetThrow

\* CountObject::getAttribute
CountGetAttribute(o, name) ==
  CASE name = "value" -> GetInt(o.value)
    [] name = "max" -> GetInt(o.max)
    [] name = "min" -> GetInt(o.min)
    [] name = "step" -> GetInt(o.step)
    [] OTHER -> GetThrow

\* MIDINoteObject::getAttribute
MIDINoteGetAttribute(o, name) ==
  CASE name = "channel" -> GetInt(o.channel)
    [] name = "note" -> GetInt(o.note)
    [] name = "velocity" -> GetInt(o.velocity)
    [] name = "duration" -> GetInt(o.duration)
    [] name = "playing" -> GetInt(IF o.isPlaying THEN 1 ELSE 0)
    [] OTHER -> GetThrow

\* MIDICCObject::getAttribute
MIDICCGetAttribute(o, name) ==
  CASE name = "channel" -> GetInt(o.channel)
    [] name \in {"controller", "cc"} -> GetInt(o.controller)
    [] name = "value" -> GetInt(o.value)
    [] OTHER -> GetThrow

\* MIDISeqObject::getAttribute
MIDISeqGetAttribute(o, name) ==
  CASE name = "midi_channel" -> GetInt(o.midiChannel)
    [] name = "midi_velocity" -> GetInt(o.velocity)
    [] name = "midi_enable" -> GetInt(IF o.midiEnabled THEN 1 ELSE 0)
    [] name = "note_base" ->
         GetInt(IF \E k \in 0..15 : o.notes[k] >= 0
                THEN o.notes[CHOOSE k \in 0..15 :
                               o.notes[k] >= 0 /\ \A j \in 0..(k - 1) : o.notes[j] < 0]
                ELSE 60)
    [] name \in {NoteStepNames[k] : k \in 1..16} -> GetInt(o.notes[NoteStep(name)])
    [] name \in NoteIgnoredNames -> GetInt(-1)
    [] OTHER -> SeqGetAttribute(o, name)

\* BaseObject::getAttribute, virtual dispatch on the object's class
getAttribute(o, name) ==
  CASE o.type = "int" -> IntGetAttribute(o, name)
    [] o.type = "binary" -> BinaryGetAttribute(o, name)
    [] o.type = "seq" -> SeqGetAttribute(o, name)
    [] o.type = "count" -> CountGetAttribute(o, name)
    [] o.type = "midi_note" -> MIDINoteGetAttribute(o, name)
    [] o.type = "midi_cc" -> MIDICCGetAttribute(o, name)
    [] o.type = "midi_seq" -> MIDISeqGetAttribute(o, name)

(***************************************************************************)
(* Methods the deferred events call, and onTick.                           *)
(* Every result is [obj, calls, events].                                   *)
(***************************************************************************)
Done(o) == [obj |-> o, calls |-> <<>>, events |-> <<>>]

\* SeqObject::getValue
SeqGetValue(o) ==
  IF o.position >= 0 /\ o.position < 16 THEN o.data[o.position] ELSE 0

\* SeqObject::start
SeqStartNoop(o) == o
SeqStart(o) == [o EXCEPT !.playing = TRUE, !.position = 0]

\* SeqObject::stop
SeqStop(o) == [o EXCEPT !.playing = FALSE]

\* SeqObject::onTick
SeqOnTick(o) ==
  IF o.playing THEN [o EXCEPT !.position = CRem(o.position + 1, o.length)] ELSE o

\* CountObject::start
CountStartNoop(o) == o
CountStart(o) == [o EXCEPT !.running = TRUE]

\* CountObject::stop
CountStop(o) == [o EXCEPT !.running = FALSE]

\* CountObject::reset
CountReset(o) == [o EXCEPT !.value = o.min]

\* CountObject::onTick
CountOnTickStays(o) ==
  IF ~o.running THEN o ELSE [o EXCEPT !.value = IntSum(o.value, o.step)]
CountOnTick(o) ==
  IF ~o.running THEN o
  ELSE LET v == IntSum(o.value, o.step) IN
       [o EXCEPT !.value =
          IF v > o.max THEN (IF o.step > 0 THEN o.min ELSE o.max)
          ELSE IF v < o.min THEN (IF o.step < 0 THEN o.max ELSE o.min)
          ELSE v]

\* MIDINoteObject::onTick, the test that ends the note
DurationElapsedLate(count, duration) == count > duration
DurationElapsed(count, duration) == count >= duration

\* MIDINoteObject::onTick
MIDINoteOnTick(o) ==
  IF ~o.isPlaying THEN Done(o)
  ELSE IF DurationElapsed(o.durationCount + 1, o.duration)
       THEN [obj |-> [o EXCEPT !.isPlaying = FALSE, !.durationCount = 0],
             calls |-> <<MidiCall("NOTE_OFF", o.channel, o.note, 0, o.inst, "onTick")>>,
             events |-> <<>>]
       ELSE Done([o EXCEPT !.durationCount = o.durationCount + 1])

\* MIDINoteObject::trigger
MIDINoteTrigger(o) ==
  [obj |-> [o EXCEPT !.isPlaying = TRUE, !.durationCount = 0],
   calls |-> (IF o.isPlaying
                THEN <<MidiCall("NOTE_OFF", o.channel, o.note, 0, o.inst, "trigger")>>
                ELSE <<>>)
             \o <<MidiCall("NOTE_ON", o.channel, o.note, o.velocity, o.inst, "trigger")>>,
   events |-> <<>>]

\* MIDINoteObject::stop
MIDINoteStop(o) ==
  IF o.isPlaying
    THEN [obj |-> [o EXCEPT !.isPlaying = FALSE, !.durationCount = 0],
          calls |-> <<MidiCall("NOTE_OFF", o.channel, o.note, 0, o.inst, "stop")>>,
          events |-> <<>>]
    ELSE Done(o)

\* a deferred event; this/note are the captures of the note-off lambda,
\* target the variable name of a method event, then the event a chaining
\* closure enqueues when it runs
Event(kind, target, this, note, then) ==
  [id |-> 0, kind |-> kind, target |-> target, this |-> this, note |-> note,
   then |-> then]

\* MIDISeqObject::onTick
MIDISeqOnTick(o) ==
  LET s == SeqOnTick(o)
      position == s.position
  IN IF s.midiEnabled /\ SeqGetValue(s) > 0
        /\ position >= 0 /\ position < 16 /\ s.notes[position] >= 0
       THEN [obj |-> s,
             calls |-> <<MidiCall("NOTE_ON", s.midiChannel, s.notes[position],
                                  s.velocity, s.inst, "onTick")>>,
             events |-> <<Event("NoteOff", "", s.inst, s.notes[position], "none")>>]
       ELSE Done(s)

\* BaseObject::onTick, virtual dispatch
onTick(o) ==
  CASE o.type = "seq" -> Done(SeqOnTick(o))
    [] o.type = "count" -> Done(CountOnTick(o))
    [] o.type = "midi_note" -> MIDINoteOnTick(o)
    [] o.type = "midi_seq" -> MIDISeqOnTick(o)
    [] OTHER -> Done(o)

(***************************************************************************)
(* Environment.                                                            *)
(***************************************************************************)
\* Environment::setVariable: the previous object of the name is deleted
setVariableKeep(vs, name, value) ==
  IF vs[name] # NoObj THEN vs ELSE [vs EXCEPT ![name] = value]
setVariable(vs, name, value) == [vs EXCEPT ![name] = value]

\* Environment::queueEvent
queueEventDrop(q, event) == q
queueEvent(q, event) == Append(q, event)

\* Environment::tick, "auto currentEvents = std::move(eventQueue);
\* eventQueue.clear();": what is run now and what stays queued
TakeEventsKeep(q) == [current |-> q, queue |-> q]
TakeEvents(q) == [current |-> q, queue |-> <<>>]

\* Environment::tick, the range-for over currentEvents: what is left to run
\* after the first event ran
RestEventsSkip(cur) == IF Len(cur) > 1 THEN Tail(Tail(cur)) ELSE <<>>
RestEvents(cur) == Tail(cur)

\* the objects currently owned by the variable table
LiveInsts(vs) == {vs[n].inst : n \in Names} \ {0}
ObjOfInst(vs, i) == vs[CHOOSE n \in Names : vs[n].inst = i]

\* Environment::tick, "for (auto &pair : variables) pair.second->onTick(*this)"
RECURSIVE UpdateFrom(_, _)
UpdateFrom(k, acc) ==
  IF k > Len(NameOrder) THEN acc
  ELSE LET n == NameOrder[k]
           o == acc.vs[n]
       IN IF o = NoObj THEN UpdateFrom(k + 1, acc)
          ELSE LET r == onTick(o)
               IN UpdateFrom(k + 1,
                    [vs |-> [acc.vs EXCEPT ![n] = r.obj],
                     calls |-> acc.calls \o r.calls,
                     events |-> acc.events \o r.events])

UpdatePass(vs) == UpdateFrom(1, [vs |-> vs, calls |-> <<>>, events |-> <<>>])

\* history records
Stamp(calls, t) ==
  [k \in 1..Len(calls) |->
     [op |-> calls[k].op, channel |-> calls[k].channel, data1 |-> calls[k].data1,
      data2 |-> calls[k].data2, by |-> calls[k].by, via |-> calls[k].via,
      tick |-> t]]

Info(kind, phase, t) ==
  [kind |-> kind, enqTick |-> t, enqPhase |-> phase, execTicks |-> <<>>,
   inst |-> 0]

\* events given their ids, first id is first
Numbered(events, first) ==
  [k \in 1..Len(events) |-> [events[k] EXCEPT !.id = first + k - 1]]

InitEnv ==
  /\ variables = [n \in Names |-> NoObj]
  /\ eventQueue = <<>>
  /\ tickCounter = 0
  /\ currentEvents = <<>>
  /\ pc = "idle"
  /\ nextInst = 1
  /\ tickNo = 0
  /\ evInfo = <<>>
  /\ midiCalls = <<>>
  /\ noteTrig = [n \in Names |-> [at |-> 0, clean |-> FALSE]]
  /\ nLines = 0

\* inputs of the lines
CreateInputs == {<<"a", "count">>, <<"a", "midi_note">>, <<"b", "midi_seq">>}
AttrInputs == {<<"a", "duration", 2>>, <<"a", "note", 62>>, <<"b", "data", 1>>}
MethodInputs == {<<"a", "start">>, <<"a", "stop">>, <<"a", "reset">>,
                 <<"a", "trigger">>, <<"b", "start">>, <<"b", "stop">>}
MethodKind(m) ==
  CASE m = "start" -> "Start" [] m = "stop" -> "Stop"
    [] m = "reset" -> "Reset" [] m = "trigger" -> "Trigger"
MethodKinds == {"Start", "Stop", "Reset", "Trigger"}

\* Parser::processClassCreation, `$name = @type`
processClassCreation(name, type) ==
  /\ pc = "idle"
  /\ nLines < MaxLines
  /\ nLines' = nLines + 1
  /\ variables' = setVariable(variables, name, createObject(type, nextInst))
  /\ nextInst' = nextInst + 1
  /\ noteTrig' = [noteTrig EXCEPT ![name].clean = FALSE]
  /\ UNCHANGED <<eventQueue, tickCounter, currentEvents, pc, tickNo, evInfo,
                 midiCalls>>

\* Parser::processVariableAssignment, `$name = $src`: the name is bound to
\* a copy of the object of src
processVariableAssignment(name, src) ==
  /\ pc = "idle"
  /\ nLines < MaxLines
  /\ nLines' = nLines + 1
  /\ name # src
  /\ variables[src] # NoObj
  /\ variables' = setVariable(variables, name, clone(variables[src], nextInst))
  /\ nextInst' = nextInst + 1
  /\ noteTrig' = [noteTrig EXCEPT ![name].clean = FALSE]
  /\ UNCHANGED <<eventQueue, tickCounter, currentEvents, pc, tickNo, evInfo,
                 midiCalls>>

\* Parser::processAttributeAccess, `$name.attr = value`; an exception of
\* setAttribute is caught and reported, the object is as it was
processAttributeSet(name, attr, v) ==
  /\ pc = "idle"
  /\ nLines < MaxLines
  /\ variables[name] # NoObj
  /\ LET r == setAttribute(variables[name], attr, v)
     IN /\ variables' = [variables EXCEPT ![name] = r.obj]
        /\ midiCalls' = midiCalls \o Stamp(r.calls, tickNo)
  /\ nLines' = nLines + 1
  /\ noteTrig' = [noteTrig EXCEPT ![name].clean = FALSE]
  /\ UNCHANGED <<eventQueue, tickCounter, currentEvents, pc, nextInst, tickNo,
                 evInfo>>

\* Parser::processMethodCall, `$name.method()`: enqueues the deferred event
processMethodCall(name, method) ==
  /\ pc = "idle"
  /\ nLines < MaxLines
  /\ nLines' = nLines + 1
  /\ variables[name] # NoObj
  /\ eventQueue' = queueEvent(eventQueue,
         [Event(MethodKind(method), name, 0, -1, "none") EXCEPT
            !.id = Len(evInfo) + 1])
  /\ evInfo' = Append(evInfo, [Info(MethodKind(method), "line", tickNo) EXCEPT
                                 !.inst = variables[name].inst])
  /\ UNCHANGED <<variables, tickCounter, currentEvents, pc, nextInst, tickNo,
                 midiCalls, noteTrig>>

(***************************************************************************)
(* Pipelines, `cmd1 | cmd2 | ...`.                                         *)
(***************************************************************************)
VARIABLE
  lastPipeline  \* history: the last pipeline line: its segments, what it
                \* reported, the objects, tick and line count when entered

pipeVars == <<lastPipeline>>

NoPipeline == [segs |-> <<>>, ok |-> TRUE, before |-> <<>>, tick |-> 0, line |-> 0]

\* a segment is <<name, method>>; Parser::splitByPipe gives them in order
StartAB == <<<<"a", "start">>, <<"b", "start">>>>
StartBA == <<<<"b", "start">>, <<"a", "start">>>>
PipeInputs == {StartAB, StartBA, <<<<"b", "stop">>, <<"a", "start">>>>}

\* the method-call form of one segment: fails when the name is unbound
SegmentOk(vs, seg) == vs[seg[1]] # NoObj

\* Parser::processPipeline: every segment is dispatched in turn, the result
\* is the conjunction
RECURSIVE DispatchFrom(_, _, _, _)
DispatchFrom(vs, segs, k, acc) ==
  IF k > Len(segs) THEN acc
  ELSE IF ~SegmentOk(vs, segs[k])
       THEN DispatchFrom(vs, segs, k + 1, [acc EXCEPT !.ok = FALSE])
  ELSE DispatchFrom(vs, segs, k + 1,
         [acc EXCEPT
            !.queue = queueEvent(@,
                [Event(MethodKind(segs[k][2]), segs[k][1], 0, -1, "none") EXCEPT
                   !.id = Len(acc.info) + 1]),
            !.info = Append(@, Info(MethodKind(segs[k][2]), "line", tickNo))])

processPipeline(segs) ==
  /\ pc = "idle"
  /\ nLines < MaxLines
  /\ nLines' = nLines + 1
  /\ LET r == DispatchFrom(variables, segs, 1,
                           [queue |-> eventQueue, info |-> evInfo, ok |-> TRUE])
     IN  /\ eventQueue' = r.queue
         /\ evInfo' = r.info
         /\ lastPipeline' = [segs |-> segs, ok |-> r.ok, before |-> variables,
                             tick |-> tickNo, line |-> nLines + 1]
  /\ UNCHANGED <<variables, tickCounter, currentEvents, pc, nextInst, tickNo,
                 midiCalls, noteTrig>>

\* Environment::queueEvent called with a closure that itself calls
\* queueEvent (with a closure that does nothing) when it runs
QueueChainEvent ==
  /\ pc = "idle"
  /\ nLines < MaxLines
  /\ nLines' = nLines + 1
  /\ eventQueue' = queueEvent(eventQueue,
         [Event("Chain", "", 0, -1, "Nop") EXCEPT !.id = Len(evInfo) + 1])
  /\ evInfo' = Append(evInfo, Info("Chain", "line", tickNo))
  /\ UNCHANGED <<variables, tickCounter, currentEvents, pc, nextInst, tickNo,
                 midiCalls, noteTrig>>

\* Environment::tick, first part: the counter and the onTick pass
\* (tickHandlers is empty: nothing in the program calls addTickHandler)
TickUpdate ==
  /\ pc = "idle"
  /\ tickNo < MaxTicks
  /\ LET r == UpdatePass(variables)
     IN /\ variables' = r.vs
        /\ midiCalls' = midiCalls \o Stamp(r.calls, tickNo + 1)
        /\ eventQueue' = eventQueue \o Numbered(r.events, Len(evInfo) + 1)
        /\ evInfo' = evInfo \o
             [k \in 1..Len(r.events) |-> Info(r.events[k].kind, "update", tickNo + 1)]
  /\ tickCounter' = (tickCounter + 1) % 256
  /\ tickNo' = tickNo + 1
  /\ pc' = "take"
  /\ UNCHANGED <<currentEvents, nextInst, noteTrig, nLines>>

\* Environment::tick, the queue is moved out and cleared
TickTake ==
  /\ pc = "take"
  /\ currentEvents' = TakeEvents(eventQueue).current
  /\ eventQueue' = TakeEvents(eventQueue).queue
  /\ pc' = "drain"
  /\ UNCHANGED <<variables, tickCounter, nextInst, tickNo, evInfo, midiCalls,
                 noteTrig, nLines>>

\* the closure built by Parser::processMethodCall: the target is looked up
\* by name and the method of its class is called; no object, or a class
\* without the method: nothing happens
ExecMethodEvent(o, kind) ==
  CASE kind = "Start" /\ o.type = "count" -> Done(CountStart(o))
    [] kind = "Start" /\ IsSeq(o) -> Done(SeqStart(o))
    [] kind = "Stop" /\ o.type = "count" -> Done(CountStop(o))
    [] kind = "Stop" /\ IsSeq(o) -> Done(SeqStop(o))
    [] kind = "Stop" /\ o.type = "midi_note" -> MIDINoteStop(o)
    [] kind = "Reset" /\ o.type = "count" -> Done(CountReset(o))
    [] kind = "Trigger" /\ o.type = "midi_note" -> MIDINoteTrigger(o)
    [] OTHER -> Done(o)

\* MIDISeqObject::onTick, noteOffEvent: the channel read through the captured
\* this; a this that is no longer a live object reads any channel
noteOffChannels(vs, ev) ==
  IF ev.this \in LiveInsts(vs) THEN {ObjOfInst(vs, ev.this).midiChannel} ELSE 0..15

Executed(info, id, t) == [info EXCEPT ![id].execTicks = Append(@, t)]

\* Environment::tick, "for (auto &event : currentEvents) event(*this)", one event
TickExec ==
  /\ pc = "drain"
  /\ currentEvents # <<>>
  /\ LET ev == Head(currentEvents) IN
     /\ currentEvents' = RestEvents(currentEvents)
     /\ \/ /\ ev.kind \in MethodKinds
           /\ LET r == ExecMethodEvent(variables[ev.target], ev.kind)
                  o == variables[ev.target]
              IN /\ variables' = [variables EXCEPT ![ev.target] = r.obj]
                 /\ midiCalls' = midiCalls \o Stamp(r.calls, tickNo)
                 /\ noteTrig' =
                      IF o.type = "midi_note" /\ ev.kind = "Trigger"
                        THEN [noteTrig EXCEPT ![ev.target] = [at |-> tickNo, clean |-> TRUE]]
                      ELSE IF o.type = "midi_note" /\ ev.kind = "Stop"
                        THEN [noteTrig EXCEPT ![ev.target].clean = FALSE]
                      ELSE noteTrig
           /\ evInfo' = Executed(evInfo, ev.id, tickNo)
           /\ UNCHANGED eventQueue
        \/ /\ ev.kind = "NoteOff"
           /\ \E ch \in noteOffChannels(variables, ev) :
                midiCalls' = midiCalls \o
                  Stamp(<<MidiCall("NOTE_OFF", ch, ev.note, 0, ev.this, "event")>>, tickNo)
           /\ evInfo' = Executed(evInfo, ev.id, tickNo)
           /\ UNCHANGED <<variables, eventQueue, noteTrig>>
        \/ /\ ev.kind = "Chain"
           /\ eventQueue' = queueEvent(eventQueue,
                  [Event(ev.then, "", 0, -1, "none") EXCEPT !.id = Len(evInfo) + 1])
           /\ evInfo' = Append(Executed(evInfo, ev.id, tickNo),
                               Info(ev.then, "drain", tickNo))
           /\ UNCHANGED <<variables, midiCalls, noteTrig>>
        \/ /\ ev.kind = "Nop"
           /\ evInfo' = Executed(evInfo, ev.id, tickNo)
           /\ UNCHANGED <<variables, eventQueue, midiCalls, noteTrig>>
  /\ UNCHANGED <<tickCounter, pc, nextInst, tickNo, nLines>>

\* Environment::tick returns
TickReturn ==
  /\ pc = "drain"
  /\ currentEvents = <<>>
  /\ pc' = "idle"
  /\ UNCHANGED <<variables, eventQueue, tickCounter, currentEvents, nextInst,
                 tickNo, evInfo, midiCalls, noteTrig, nLines>>

(***************************************************************************)
(* Part II.  MIDIManager: the message queue, the consumer thread and the   *)
(* sink (RtMidiOut).                                                       *)
(***************************************************************************)
MaxMsgs == 2
MaxSends == 1
MaxConsumers == 2

VARIABLES
  initialized,          \* MIDIManager::initialized
  midiOut,              \* MIDIManager::midiOut holds an RtMidiOut
  availableOutputs,     \* number of names in MIDIManager::availableOutputs
  sinkPorts,            \* the ports the sink holds open, {}: isPortOpen() false
  currentOutputDevice,  \* MIDIManager::currentOutputDevice
  messageQueue,         \* MIDIManager::messageQueue
  queueMutex,           \* MIDIManager::queueMutex, its holder (0: free)
  running,              \* MIDIManager::running
  processingThread,     \* MIDIManager::processingThread, 0: not joinable
  cpc,                  \* position of each consumer thread (processMessages)
  cmsg,                 \* processMessages: local msg / hasMessage
  tpc,                  \* position of each client thread
  tmsg,                 \* queueMessage: the argument of the call in progress
  lastCall,             \* history: the last call of the tick/parse thread
  sendResult,           \* history: what the last send operation returned
  nextMsgId,            \* history: number of the next message pushed
  dequeued,             \* history: ids popped by consumers, in order
  delivered             \* history: frames handed to the sink, in order

midiVars == <<initialized, midiOut, availableOutputs, sinkPorts,
              currentOutputDevice, messageQueue, queueMutex, running,
              processingThread, cpc, cmsg, tpc, tmsg, lastCall, sendResult,
              nextMsgId, dequeued, delivered>>

\* what the dispatcher is, without the history of calls and the callers
dispatcherState == <<initialized, midiOut, availableOutputs, sinkPorts,
                     currentOutputDevice, messageQueue, queueMutex, running,
                     processingThread, cpc, cmsg, dequeued, delivered>>

\* the tick/parse thread and one more producer thread
Clients == {"main", "aux"}
ConsumerIds == 1..MaxConsumers

\* struct MIDIMessage
MIDIMessage(type, ch, d1, d2) ==
  [id |-> 0, type |-> type, channel |-> ch, data1 |-> d1, data2 |-> d2]
NoMsg == [id |-> 0, type |-> "none", channel |-> 0, data1 |-> 0, data2 |-> 0]

\* MIDIManager::sendNoteOn .. sendChannelPressure: the message they build
sendNoteOn(channel, note, velocity) == MIDIMessage("NOTE_ON", channel, note, velocity)
sendNoteOff(channel, note) == MIDIMessage("NOTE_OFF", channel, note, 0)
sendCC(channel, controller, value) == MIDIMessage("CC", channel, controller, value)
sendProgramChange(channel, program) == MIDIMessage("PROGRAM_CHANGE", channel, program, 0)
sendPitchBend(channel, value) ==
  MIDIMessage("PITCH_BEND", channel, And7F(value), And7F(value \div 128))
sendAftertouch(channel, note, pressure) == MIDIMessage("AFTERTOUCH", channel, note, pressure)
sendChannelPressure(channel, pressure) == MIDIMessage("AFTERTOUCH", channel, pressure, 0)

SendOps == {"sendNoteOn", "sendNoteOff", "sendCC", "sendProgramChange",
            "sendPitchBend", "sendAftertouch", "sendChannelPressure"}

\* the send operation op called with (channel, a, b)
BuildMessage(op, channel, a, b) ==
  CASE op = "sendNoteOn" -> sendNoteOn(channel, a, b)
    [] op = "sendNoteOff" -> sendNoteOff(channel, a)
    [] op = "sendCC" -> sendCC(channel, a, b)
    [] op = "sendProgramChange" -> sendProgramChange(channel, a)
    [] op = "sendPitchBend" -> sendPitchBend(channel, a)
    [] op = "sendAftertouch" -> sendAftertouch(channel, a, b)
    [] op = "sendChannelPressure" -> sendChannelPressure(channel, a)

\* MIDIManager::sendMessage, the switch: the raw frame of a message
\* (<<>>: the default branch, nothing is sent)
Frame(msg) ==
  CASE msg.type = "NOTE_ON" ->
         <<144 + And0F(msg.channel), And7F(msg.data1), And7F(msg.data2)>>
    [] msg.type = "NOTE_OFF" ->
         <<128 + And0F(msg.channel), And7F(msg.data1), And7F(msg.data2)>>
    [] msg.type = "CC" ->
         <<176 + And0F(msg.channel), And7F(msg.data1), And7F(msg.data2)>>
    [] msg.type = "PROGRAM_CHANGE" ->
         <<192 + And0F(msg.channel), And7F(msg.data1)>>
    [] msg.type = "AFTERTOUCH" ->
         <<160 + And0F(msg.channel), And7F(msg.data1), And7F(msg.data2)>>
    [] msg.type = "PITCH_BEND" ->
         <<224 + And0F(msg.channel), And7F(msg.data1), And7F(msg.data2)>>
    [] OTHER -> <<>>

\* MIDIManager::sendMessage, the guard
\* "if (!initialized || !midiOut || !midiOut->isPortOpen()) return false"
SinkReadyNoPortCheck(init, out, port) == init /\ out
SinkReady(init, out, port) == init /\ out /\ port # {}

\* MIDIManager::startProcessing, "if (running) return"
StartNeededAlways(r) == TRUE
StartNeeded(r) == ~r

\* MIDIManager::processMessages, "while (running)"
LoopContinuesForever(r) == TRUE
LoopContinues(r) == r

\* MIDIManager::processMessages, "msg = messageQueue.front()"
FrontOfQueue(q) == Head(q)

\* MIDIManager::processMessages, "messageQueue.pop()"
PopQueueKeep(q) == q
PopQueue(q) == Tail(q)

\* the threads inside midiOut->sendMessage
ClientsInSink == {t \in Clients : tpc[t] = "in_sink"}
ConsumersInSink == {c \in ConsumerIds : cpc[c] = "in_sink"}

\* the consumer threads that exist
Consumers == {c \in ConsumerIds : cpc[c] # "none"}

\* a call of the tick/parse thread, with what the manager was when it came
Call(op) ==
  [op |-> op, running |-> running, ready |-> initialized /\ sinkPorts # {},
   ports |-> sinkPorts, ret |-> "none", args |-> <<>>]

\* the direct sends that reached the sink
DirectSends == {k \in 1..Len(delivered) : delivered[k].id = 0}

InitMidi ==
  /\ initialized = FALSE
  /\ midiOut = FALSE
  /\ availableOutputs = 0
  /\ sinkPorts = {}
  /\ currentOutputDevice = -1
  /\ messageQueue = <<>>
  /\ queueMutex = 0
  /\ running = FALSE
  /\ processingThread = 0
  /\ cpc = [c \in ConsumerIds |-> "none"]
  /\ cmsg = [c \in ConsumerIds |-> NoMsg]
  /\ tpc = [t \in Clients |-> "idle"]
  /\ tmsg = [t \in Clients |-> NoMsg]
  /\ lastCall = [op |-> "none", running |-> FALSE, ready |-> FALSE,
                 ports |-> {}, ret |-> "none", args |-> <<>>]
  /\ sendResult = "none"
  /\ nextMsgId = 1
  /\ dequeued = <<>>
  /\ delivered = <<>>

\* the holder of queueMutex: 0 nobody, c > 0 consumer c, < 0 a client
Holder(t) == IF t = "main" THEN -1 ELSE -2

\* the ports the sink reports (midiOut->getPortCount(), getPortName(i))
PortNames == <<"port 0", "port 1">>
PortCount == Len(PortNames)

\* MIDIManager::initialize, its outcomes when not yet initialized: all well,
\* the RtMidiOut constructor throws, the port scan throws
InitOutcomes == {"ok", "ctor_throw", "scan_throw"}
InitResult(outcome) ==
  CASE outcome = "ok" ->
         [initialized |-> TRUE, midiOut |-> TRUE, availableOutputs |-> PortCount]
    [] outcome = "ctor_throw" ->
         [initialized |-> FALSE, midiOut |-> midiOut,
          availableOutputs |-> availableOutputs]
    [] outcome = "scan_throw" ->
         [initialized |-> FALSE, midiOut |-> TRUE, availableOutputs |-> 0]

\* inputs of the calls
DeviceInputs == {0, 1, 2}
MidiSendInputs == {<<"sendNoteOn", 1, 60, 100>>}
SendInputs ==
  {<<"sendNoteOn", 1, 60, 100>>, <<"sendNoteOff", 1, 60, 0>>,
   <<"sendCC", 1, 7, 64>>, <<"sendProgramChange", 1, 5, 0>>,
   <<"sendPitchBend", 1, 8192, 0>>, <<"sendAftertouch", 1, 60, 64>>,
   <<"sendChannelPressure", 1, 64, 0>>}
QueueInputs == {MIDIMessage("NOTE_ON", 0, 60, 100)}
\* (channel, a, b) of the encoding checks: values in range and values outside
\* 0..15 and 0..127 on either side
EncodeArgs ==
  {<<15, 127, 127>>, <<16, 128, 200>>, <<-1, -1, 64>>, <<1, 128, 64>>, <<1, 8192, 0>>}
\* the calls that stand for the six kinds of message with a frame of their own
EncodeInputs ==
  {<<op, x[1], x[2], x[3]>> : op \in SendOps \ {"sendChannelPressure"}, x \in EncodeArgs}

\* MIDIManager::initialize
initialize ==
  /\ tpc["main"] = "idle"
  /\ lastCall' = Call("initialize")
  /\ IF initialized
       THEN UNCHANGED <<initialized, midiOut, availableOutputs>>
       ELSE \E outcome \in InitOutcomes :
              /\ initialized' = InitResult(outcome).initialized
              /\ midiOut' = InitResult(outcome).midiOut
              /\ availableOutputs' = InitResult(outcome).availableOutputs
  /\ UNCHANGED <<sinkPorts, currentOutputDevice, messageQueue, queueMutex,
                 running, processingThread, cpc, cmsg, tpc, tmsg, sendResult,
                 nextMsgId, dequeued, delivered>>

\* MIDIManager::openOutputDevice, "if (midiOut->isPortOpen())
\* midiOut->closePort()": the connections left open
ClosePortsSkip(ports) == ports
ClosePorts(ports) == {}

\* MIDIManager::openOutputDevice; midiOut->openPort either connects or throws
\* RtMidiError, which is caught
openOutputDevice(deviceId) ==
  /\ tpc["main"] = "idle"
  /\ \E outcome \in InitOutcomes, opens \in BOOLEAN :
       LET st == IF initialized
                   THEN [initialized |-> TRUE, midiOut |-> midiOut,
                         availableOutputs |-> availableOutputs]
                   ELSE InitResult(outcome)
           valid == deviceId >= 0 /\ deviceId < st.availableOutputs
       IN /\ initialized' = st.initialized
          /\ midiOut' = st.midiOut
          /\ availableOutputs' = st.availableOutputs
          /\ IF st.initialized /\ valid
               THEN /\ sinkPorts' = IF opens THEN ClosePorts(sinkPorts) \cup {deviceId}
                                    ELSE ClosePorts(sinkPorts)
                    /\ currentOutputDevice' =
                         IF opens THEN deviceId ELSE currentOutputDevice
                    /\ lastCall' = [Call("openOutputDevice") EXCEPT
                                     !.ret = IF opens THEN "true" ELSE "false"]
               ELSE /\ UNCHANGED <<sinkPorts, currentOutputDevice>>
                    /\ lastCall' = [Call("openOutputDevice") EXCEPT !.ret = "false"]
  /\ UNCHANGED <<messageQueue, queueMutex, running, processingThread, cpc,
                 cmsg, tpc, tmsg, sendResult, nextMsgId, dequeued, delivered>>

\* MIDIManager::startProcessing
startProcessing ==
  /\ tpc["main"] = "idle"
  /\ lastCall' = Call("startProcessing")
  /\ IF StartNeeded(running)
       THEN /\ \E c \in ConsumerIds :
                 /\ cpc[c] = "none"
                 /\ \A d \in ConsumerIds : cpc[d] = "none" => c <= d
                 /\ cpc' = [cpc EXCEPT ![c] = "loop"]
                 /\ processingThread' = c
            /\ running' = TRUE
       ELSE UNCHANGED <<running, processingThread, cpc>>
  /\ UNCHANGED <<initialized, midiOut, availableOutputs, sinkPorts,
                 currentOutputDevice, messageQueue, queueMutex, cmsg, tpc,
                 tmsg, sendResult, nextMsgId, dequeued, delivered>>

\* MIDIManager::stopProcessing up to the join
stopProcessing ==
  /\ tpc["main"] = "idle"
  /\ lastCall' = Call("stopProcessing")
  /\ running' = FALSE
  /\ tpc' = IF processingThread # 0 THEN [tpc EXCEPT !["main"] = "joining"] ELSE tpc
  /\ UNCHANGED <<initialized, midiOut, availableOutputs, sinkPorts,
                 currentOutputDevice, messageQueue, queueMutex,
                 processingThread, cpc, cmsg, tmsg, sendResult, nextMsgId,
                 dequeued, delivered>>

\* MIDIManager::stopProcessing, processingThread.join() returns
stopJoin ==
  /\ tpc["main"] = "joining"
  /\ UNCHANGED lastCall
  /\ cpc[processingThread] = "exited"
  /\ cpc' = [cpc EXCEPT ![processingThread] = "none"]
  /\ processingThread' = 0
  /\ tpc' = [tpc EXCEPT !["main"] = "idle"]
  /\ UNCHANGED <<initialized, midiOut, availableOutputs, sinkPorts,
                 currentOutputDevice, messageQueue, queueMutex, running, cmsg,
                 tmsg, sendResult, nextMsgId, dequeued, delivered>>

\* MIDIManager::cleanup; with the consumer running it first stops it and
\* waits in the join
cleanup ==
  /\ tpc["main"] = "idle"
  /\ lastCall' = Call("cleanup")
  /\ IF running /\ processingThread # 0
       THEN /\ running' = FALSE
            /\ tpc' = [tpc EXCEPT !["main"] = "cleanup_join"]
            /\ UNCHANGED <<initialized, midiOut, sinkPorts>>
       ELSE /\ running' = FALSE
            /\ sinkPorts' = {}
            /\ midiOut' = FALSE
            /\ initialized' = FALSE
            /\ UNCHANGED tpc
  /\ UNCHANGED <<availableOutputs, currentOutputDevice, messageQueue,
                 queueMutex, processingThread, cpc, cmsg, tmsg, sendResult,
                 nextMsgId, dequeued, delivered>>

\* MIDIManager::cleanup after the join: port closed, sink released
cleanupJoin ==
  /\ tpc["main"] = "cleanup_join"
  /\ UNCHANGED lastCall
  /\ cpc[processingThread] = "exited"
  /\ cpc' = [cpc EXCEPT ![processingThread] = "none"]
  /\ processingThread' = 0
  /\ tpc' = [tpc EXCEPT !["main"] = "idle"]
  /\ sinkPorts' = {}
  /\ midiOut' = FALSE
  /\ initialized' = FALSE
  /\ UNCHANGED <<availableOutputs, currentOutputDevice, messageQueue,
                 queueMutex, running, cmsg, tmsg, sendResult, nextMsgId,
                 dequeued, delivered>>

\* MIDIManager::queueMessage, the lock_guard is taken
queueMessage(t, msg) ==
  /\ tpc[t] = "idle"
  /\ nextMsgId <= MaxMsgs
  /\ lastCall' = IF t = "main" THEN Call("queueMessage") ELSE lastCall
  /\ queueMutex = 0
  /\ queueMutex' = Holder(t)
  /\ tpc' = [tpc EXCEPT ![t] = "q_locked"]
  /\ tmsg' = [tmsg EXCEPT ![t] = msg]
  /\ UNCHANGED <<initialized, midiOut, availableOutputs, sinkPorts,
                 currentOutputDevice, messageQueue, running, processingThread,
                 cpc, cmsg, sendResult, nextMsgId, dequeued, delivered>>

\* MIDIManager::queueMessage, push and unlock
queuePush(t) ==
  /\ tpc[t] = "q_locked"
  /\ UNCHANGED lastCall
  /\ messageQueue' = Append(messageQueue, [tmsg[t] EXCEPT !.id = nextMsgId])
  /\ nextMsgId' = nextMsgId + 1
  /\ queueMutex' = 0
  /\ tpc' = [tpc EXCEPT ![t] = "idle"]
  /\ tmsg' = [tmsg EXCEPT ![t] = NoMsg]
  /\ UNCHANGED <<initialized, midiOut, availableOutputs, sinkPorts,
                 currentOutputDevice, running, processingThread, cpc, cmsg,
                 sendResult, dequeued, delivered>>

\* MIDIManager::sendNoteOn .. sendChannelPressure called by a client:
\* sendMessage on the caller's thread, up to midiOut->sendMessage
send(t, op, channel, a, b) ==
  /\ tpc[t] = "idle"
  /\ lastCall' = IF t = "main"
                  THEN [Call(op) EXCEPT !.args = <<channel, a, b>>]
                  ELSE lastCall
  /\ IF SinkReady(initialized, midiOut, sinkPorts)
       THEN /\ Cardinality(DirectSends) < MaxSends
            /\ delivered' = Append(delivered,
                 [id |-> 0, frame |-> Frame(BuildMessage(op, channel, a, b)),
                  consumer |-> 0])
            /\ tpc' = [tpc EXCEPT ![t] = "in_sink"]
            /\ UNCHANGED sendResult
       ELSE /\ sendResult' = "false"
            /\ UNCHANGED <<delivered, tpc>>
  /\ UNCHANGED <<initialized, midiOut, availableOutputs, sinkPorts,
                 currentOutputDevice, messageQueue, queueMutex, running,
                 processingThread, cpc, cmsg, tmsg, nextMsgId, dequeued>>

\* midiOut->sendMessage returns to the client, or throws RtMidiError
sendReturn(t) ==
  /\ tpc[t] = "in_sink"
  /\ UNCHANGED lastCall
  /\ tpc' = [tpc EXCEPT ![t] = "idle"]
  /\ \E r \in {"true", "false"} : sendResult' = r
  /\ UNCHANGED <<initialized, midiOut, availableOutputs, sinkPorts,
                 currentOutputDevice, messageQueue, queueMutex, running,
                 processingThread, cpc, cmsg, tmsg, nextMsgId, dequeued,
                 delivered>>

\* MIDIManager::processMessages, "while (running)"
consumerLoop(c) ==
  /\ cpc[c] = "loop"
  /\ UNCHANGED lastCall
  /\ cpc' = [cpc EXCEPT ![c] = IF LoopContinues(running) THEN "lock" ELSE "exited"]
  /\ UNCHANGED <<initialized, midiOut, availableOutputs, sinkPorts,
                 currentOutputDevice, messageQueue, queueMutex, running,
                 processingThread, cmsg, tpc, tmsg, sendResult, nextMsgId,
                 dequeued, delivered>>

\* MIDIManager::processMessages, the lock_guard is taken
consumerLock(c) ==
  /\ cpc[c] = "lock"
  /\ UNCHANGED lastCall
  /\ queueMutex = 0
  /\ queueMutex' = c
  /\ cpc' = [cpc EXCEPT ![c] = "crit"]
  /\ UNCHANGED <<initialized, midiOut, availableOutputs, sinkPorts,
                 currentOutputDevice, messageQueue, running, processingThread,
                 cmsg, tpc, tmsg, sendResult, nextMsgId, dequeued, delivered>>

\* MIDIManager::processMessages, front/pop under the lock, then unlock;
\* with nothing queued the thread sleeps 1 ms and loops
consumerTake(c) ==
  /\ cpc[c] = "crit"
  /\ UNCHANGED lastCall
  /\ queueMutex' = 0
  /\ IF messageQueue # <<>>
       THEN /\ cmsg' = [cmsg EXCEPT ![c] = FrontOfQueue(messageQueue)]
            /\ messageQueue' = PopQueue(messageQueue)
            /\ dequeued' = Append(dequeued, FrontOfQueue(messageQueue).id)
            /\ cpc' = [cpc EXCEPT ![c] = "send"]
       ELSE /\ cpc' = [cpc EXCEPT ![c] = "loop"]
            /\ UNCHANGED <<cmsg, messageQueue, dequeued>>
  /\ UNCHANGED <<initialized, midiOut, availableOutputs, sinkPorts,
                 currentOutputDevice, running, processingThread, tpc, tmsg,
                 sendResult, nextMsgId, delivered>>

\* MIDIManager::processMessages, sendMessage(msg) up to midiOut->sendMessage;
\* a refused message is dropped, the thread sleeps 1 ms and loops
consumerSendStops(c) ==
  /\ cpc[c] = "send"
  /\ UNCHANGED lastCall
  /\ IF SinkReady(initialized, midiOut, sinkPorts) /\ Frame(cmsg[c]) # <<>>
       THEN /\ delivered' = Append(delivered,
                 [id |-> cmsg[c].id, frame |-> Frame(cmsg[c]), consumer |-> c])
            /\ cpc' = [cpc EXCEPT ![c] = "in_sink"]
            /\ UNCHANGED cmsg
       ELSE /\ cpc' = [cpc EXCEPT ![c] = "exited"]
            /\ cmsg' = [cmsg EXCEPT ![c] = NoMsg]
            /\ UNCHANGED delivered
  /\ UNCHANGED <<initialized, midiOut, availableOutputs, sinkPorts,
                 currentOutputDevice, messageQueue, queueMutex, running,
                 processingThread, tpc, tmsg, sendResult, nextMsgId, dequeued>>
consumerSend(c) ==
  /\ cpc[c] = "send"
  /\ UNCHANGED lastCall
  /\ IF SinkReady(initialized, midiOut, sinkPorts) /\ Frame(cmsg[c]) # <<>>
       THEN /\ delivered' = Append(delivered,
                 [id |-> cmsg[c].id, frame |-> Frame(cmsg[c]), consumer |-> c])
            /\ cpc' = [cpc EXCEPT ![c] = "in_sink"]
            /\ UNCHANGED cmsg
       ELSE /\ cpc' = [cpc EXCEPT ![c] = "loop"]
            /\ cmsg' = [cmsg EXCEPT ![c] = NoMsg]
            /\ UNCHANGED delivered
  /\ UNCHANGED <<initialized, midiOut, availableOutputs, sinkPorts,
                 currentOutputDevice, messageQueue, queueMutex, running,
                 processingThread, tpc, tmsg, sendResult, nextMsgId, dequeued>>

\* midiOut->sendMessage returns to the consumer (or throws RtMidiError, which
\* sendMessage catches); the thread sleeps 1 ms and loops
consumerSinkReturn(c) ==
  /\ cpc[c] = "in_sink"
  /\ UNCHANGED lastCall
  /\ cpc' = [cpc EXCEPT ![c] = "loop"]
  /\ cmsg' = [cmsg EXCEPT ![c] = NoMsg]
  /\ UNCHANGED <<initialized, midiOut, availableOutputs, sinkPorts,
                 currentOutputDevice, messageQueue, queueMutex, running,
                 processingThread, tpc, tmsg, sendResult, nextMsgId, dequeued,
                 delivered>>

consumerStep(c) ==
  \/ consumerLoop(c)
  \/ consumerLock(c)
  \/ consumerTake(c)
  \/ consumerSend(c)
  \/ consumerSinkReturn(c)

(***************************************************************************)
(* Part III.  Kodeq: the pattern generators (module.hpp, module.cpp).      *)
(* A generator is a record of its fields; `type' is what getType returns.  *)
(***************************************************************************)
\* longest stretch of one mt19937 stream a behaviour draws
MaxDraws == 48

\* C++ / truncates towards zero
CDiv(a, b) ==
  IF (a >= 0) = (b > 0) THEN (IF a >= 0 THEN a \div b ELSE (-a) \div (-b))
  ELSE IF a >= 0 THEN -(a \div (-b)) ELSE -((-a) \div b)

CMax(a, b) == IF a >= b THEN a ELSE b
CMin(a, b) == IF a <= b THEN a ELSE b

ModuleTypes == {"PAT", "EUC", "SIN", "TRI", "SAW", "SQR", "RND", "SEQ"}
WaveTypes == {"SIN", "TRI", "SAW", "SQR"}

\* std::uniform_int_distribution<int>(1, 100) over std::mt19937 seeded with 0
\* and with 1: the first draws of each stream
RngStream ==
  [s \in {0, 1} |->
     IF s = 0
     THEN <<55, 60, 72, 85, 61, 86, 55, 85, 43, 63, 65, 39, 44, 30, 90, 6,
            97, 28, 39, 48, 80, 82, 53, 48, 57, 40, 93, 84, 8, 34, 9, 65,
            3, 37, 84, 96, 78, 15, 88, 88, 98, 48, 80, 81, 47, 53, 79, 68,
            12, 73, 64, 59, 15, 54, 95, 76, 53, 11, 42, 48, 27, 19, 78, 74>>
     ELSE <<42, 100, 73, 94, 1, 13, 31, 100, 15, 24, 10, 40, 19, 39, 35, 67,
            40, 94, 54, 85, 42, 32, 69, 53, 21, 45, 88, 23, 3, 54, 68, 92,
            42, 46, 56, 44, 15, 94, 20, 78, 81, 72, 97, 81, 32, 10, 70, 52,
            88, 87, 90, 83, 9, 83, 4, 28, 17, 6, 88, 68, 10, 60, 43, 68>>]

\* dist(rng): the k-th draw since rng.seed(s)
Draw(s, k) == RngStream[s][k]

\* rng.seed(s)
Seeded(s) == [seed |-> s, drawn |-> 0]

\* RandomModule::generatePattern: the stream goes on where the last draw left it
generatePattern(m) ==
  [m EXCEPT !.pattern = [i \in 1..m.length |->
                           Draw(m.rng.seed, m.rng.drawn + i) <= m.probability],
            !.rng.drawn = @ + m.length]

\* the constructors
NewPatternModule == [type |-> "PAT", pattern |-> 0, index |-> 0]
NewEuclideanModule == [type |-> "EUC", hits |-> 0, steps |-> 8, index |-> 0]
NewWaveModule(t) == [type |-> t, length |-> 16, pos |-> 0, amp |-> 127]
NewSquareModule == [type |-> "SQR", length |-> 16, pos |-> 0, amp |-> 127, duty |-> 50]
NewRandomModule ==
  generatePattern([type |-> "RND", probability |-> 50, seed |-> 0, length |-> 16,
                   pos |-> 0, regenerateOnCycle |-> TRUE, rng |-> Seeded(0),
                   pattern |-> <<>>])
NewSequencerModule ==
  [type |-> "SEQ", steps |-> [i \in 1..16 |-> 0], pos |-> 0, length |-> 8,
   looping |-> TRUE]

\* ModuleFactory::createModule, for the eight known type names
createModule(t) ==
  CASE t = "PAT" -> NewPatternModule
    [] t = "EUC" -> NewEuclideanModule
    [] t \in {"SIN", "TRI", "SAW"} -> NewWaveModule(t)
    [] t = "SQR" -> NewSquareModule
    [] t = "RND" -> NewRandomModule
    [] t = "SEQ" -> NewSequencerModule

\* std::stoi(name.substr(1)) - 1 of the SequencerModule parameters S1..S16
StepNames == [i \in 1..16 |-> "S" \o ToString(i)]
\* names of other spellings after which std::stoi(name.substr(1)) gives a
\* number: stoi reads an optional sign and the leading digits and stops at the
\* first other character
LooseStepNames == [S1X |-> 1, S02 |-> 2, S17 |-> 17, S0 |-> 0]
StepIdx(name) ==
  IF \E i \in 1..16 : StepNames[i] = name
  THEN (CHOOSE i \in 1..16 : StepNames[i] = name) - 1
  ELSE IF name \in DOMAIN LooseStepNames THEN LooseStepNames[name] - 1
  ELSE -1

PatternSetParameter(m, name, value) ==
  CASE name = "P" -> [m EXCEPT !.pattern = value]
    [] name = "I" -> [m EXCEPT !.index = value]
    [] OTHER -> m

\* std::max(1, value) keeps steps positive
ClampStepsNone(value) == value
ClampSteps(value) == CMax(1, value)

EuclideanSetParameter(m, name, value) ==
  CASE name = "K" -> [m EXCEPT !.hits = CMax(0, value)]
    [] name = "N" -> [m EXCEPT !.steps = ClampSteps(value)]
    [] name = "I" -> [m EXCEPT !.index = value]
    [] OTHER -> m

WaveSetParameter(m, name, value) ==
  CASE name = "LEN" -> [m EXCEPT !.length = CMax(1, value)]
    [] name = "POS" -> [m EXCEPT !.pos = value]
    [] name = "A" -> [m EXCEPT !.amp = CMin(127, CMax(0, value))]
    [] OTHER -> m

SquareSetParameter(m, name, value) ==
  CASE name = "LEN" -> [m EXCEPT !.length = CMax(1, value)]
    [] name = "POS" -> [m EXCEPT !.pos = value]
    [] name = "A" -> [m EXCEPT !.amp = CMin(127, CMax(0, value))]
    [] name = "D" -> [m EXCEPT !.duty = CMin(100, CMax(0, value))]
    [] OTHER -> m

RandomSetParameter(m, name, value) ==
  CASE name = "P" ->
         generatePattern([m EXCEPT !.probability = CMin(100, CMax(0, value))])
    [] name = "LEN" -> generatePattern([m EXCEPT !.length = CMax(1, value)])
    [] name = "POS" -> [m EXCEPT !.pos = value]
    [] name = "SEED" ->
         generatePattern([m EXCEPT !.seed = value, !.rng = Seeded(value)])
    [] name = "REGEN" -> [m EXCEPT !.regenerateOnCycle = (value # 0)]
    [] OTHER -> m

SequencerSetParameter(m, name, value) ==
  CASE name = "POS" -> [m EXCEPT !.pos = value]
    [] name = "LEN" -> [m EXCEPT !.length = CMin(16, CMax(1, value))]
    [] name = "LOOP" -> [m EXCEPT !.looping = (value # 0)]
    [] OTHER ->
         IF StepIdx(name) >= 0 /\ StepIdx(name) < 16
         THEN [m EXCEPT !.steps[StepIdx(name) + 1] = value]
         ELSE m

\* Module::setParameter, dispatched on the dynamic type
setParameter(m, name, value) ==
  CASE m.type = "PAT" -> PatternSetParameter(m, name, value)
    [] m.type = "EUC" -> EuclideanSetParameter(m, name, value)
    [] m.type \in {"SIN", "TRI", "SAW"} -> WaveSetParameter(m, name, value)
    [] m.type = "SQR" -> SquareSetParameter(m, name, value)
    [] m.type = "RND" -> RandomSetParameter(m, name, value)
    [] m.type = "SEQ" -> SequencerSetParameter(m, name, value)

\* the draws a setParameter call takes from the generator's stream
DrawsOf(m, name, value) ==
  IF m.type # "RND" THEN 0
  ELSE CASE name = "LEN" -> CMax(1, value)
         [] name \in {"P", "SEED"} -> m.length
         [] OTHER -> 0

\* an int read outside an array or shifted by a negative count: any value
Indeterminate == {0, 1}

SinTable == <<128, 176, 218, 245, 255, 245, 218, 176,
              128, 80, 38, 11, 0, 11, 38, 80>>

\* the divisor of every division and modulus by a field that a value read of
\* m evaluates
\* (EuclideanModule::getValue returns before dividing when steps == 0)
Divisors(m) ==
  CASE m.type = "PAT" -> {32}
    [] m.type = "EUC" -> IF m.steps = 0 \/ m.hits >= m.steps \/ m.hits = 0
                         THEN {} ELSE {m.steps}
    [] m.type \in {"SIN", "TRI", "SAW", "SQR"} -> {m.length}
    [] m.type = "RND" -> {m.length}
    [] m.type = "SEQ" -> IF m.pos >= m.length /\ ~m.looping THEN {} ELSE {m.length}

Scaled(value, amp) == 128 + CDiv((value - 128) * amp, 127)

PatternGetValue(m) ==
  IF CRem(m.index, 32) >= 0
  THEN {Bit(m.pattern, CRem(m.index, 32))}
  ELSE Indeterminate

\* the value of the first `hits' indexes of each cycle instead
EuclideanGetValuePrefix(m) ==
  IF m.steps = 0 THEN 0
  ELSE IF m.hits >= m.steps THEN 1
  ELSE IF m.hits = 0 THEN 0
  ELSE IF CRem(m.index, m.steps) < m.hits THEN 1 ELSE 0
\* EuclideanModule::getValue
EuclideanGetValue(m) ==
  IF m.steps = 0 THEN 0
  ELSE IF m.hits >= m.steps THEN 1
  ELSE IF m.hits = 0 THEN 0
  ELSE IF CRem(m.index * m.hits, m.steps) < m.hits THEN 1 ELSE 0

SineGetValue(m) ==
  LET idx == CDiv(CRem(m.pos, m.length) * 16, m.length)
  IN  IF idx \in 0..15 THEN {Scaled(SinTable[idx + 1], m.amp)}
      ELSE {Scaled(v, m.amp) : v \in Indeterminate}

TriangleGetValue(m) ==
  LET normalizedPos == CDiv(CRem(m.pos, m.length) * 256, m.length)
      value == IF normalizedPos < 128
               THEN CDiv(normalizedPos * 255, 128)
               ELSE 255 - CDiv((normalizedPos - 128) * 255, 128)
  IN  Scaled(value, m.amp)

SawtoothGetValue(m) == Scaled(CDiv(CRem(m.pos, m.length) * 255, m.length), m.amp)

SquareGetValue(m) ==
  LET normalizedPos == CDiv(CRem(m.pos, m.length) * 100, m.length)
  IN  Scaled(IF normalizedPos < m.duty THEN 255 ELSE 0, m.amp)

\* RandomModule::getValue regenerates through const_cast at a cycle start
RandomRegenerates(m) ==
  CRem(m.pos, m.length) = 0 /\ m.regenerateOnCycle /\ m.pos > 0
RandomAfterRead(m) == IF RandomRegenerates(m) THEN generatePattern(m) ELSE m
RandomGetValue(m) ==
  LET idx == CRem(m.pos, m.length)
  IN  IF idx >= 0
      THEN {IF RandomAfterRead(m).pattern[idx + 1] THEN 1 ELSE 0}
      ELSE Indeterminate

SequencerGetValue(m) ==
  IF m.pos >= m.length /\ ~m.looping THEN {0}
  ELSE IF CRem(m.pos, m.length) >= 0 THEN {m.steps[CRem(m.pos, m.length) + 1]}
  ELSE Indeterminate

\* Module::getValue: the values the read can return
getValue(m) ==
  CASE m.type = "PAT" -> PatternGetValue(m)
    [] m.type = "EUC" -> {EuclideanGetValue(m)}
    [] m.type = "SIN" -> SineGetValue(m)
    [] m.type = "TRI" -> {TriangleGetValue(m)}
    [] m.type = "SAW" -> {SawtoothGetValue(m)}
    [] m.type = "SQR" -> {SquareGetValue(m)}
    [] m.type = "RND" -> RandomGetValue(m)
    [] m.type = "SEQ" -> SequencerGetValue(m)

\* the generator after the read (only RandomModule changes)
AfterRead(m) == IF m.type = "RND" THEN RandomAfterRead(m) ELSE m

\* Module::clone: RandomModule copies the buffer and reseeds the copy's rng
cloneModule(m) ==
  IF m.type = "RND" THEN [m EXCEPT !.rng = Seeded(m.seed)] ELSE m

(***************************************************************************)
(* One generator under test: any parameter, any value, and reads.          *)
(***************************************************************************)
VARIABLES
  gen,       \* the generator
  genOp      \* history: the last operation on gen, a parameter name if set

genVars == <<gen, genOp>>

GenValues == {-3, 0, 1, 3, 8, 50, 200}
GenPositions == (0..7) \cup {-3, 8, 200}
\* (parameter, value) pairs given to a Random generator; the seeds are those
\* of the tabulated streams
RandomInputs ==
  ({"P"} \X {-3, 30, 50, 200}) \cup ({"LEN"} \X {-3, 2, 16})
    \cup ({"POS"} \X {-3, 0, 2, 16}) \cup ({"SEED", "REGEN"} \X {0, 1})
\* (parameter, value) pairs given to a generator of type t
GenInputs(t) ==
  IF t = "RND" THEN RandomInputs \cup {<<"BOGUS", 3>>}
  ELSE ({"P", "K", "N", "LEN", "A", "D", "LOOP", "S1", "S17"} \X GenValues)
         \cup ({"I", "POS"} \X GenPositions)
         \cup ({"S1X", "SX", "BOGUS"} \X {3})

InitGen ==
  /\ gen = NewPatternModule
  /\ genOp = "new"

InitAnyGen ==
  /\ gen \in {createModule(t) : t \in ModuleTypes}
  /\ genOp = "new"

GenSetParameter(name, value) ==
  /\ gen.type = "RND" => gen.rng.drawn + DrawsOf(gen, name, value) <= MaxDraws
  /\ gen' = setParameter(gen, name, value)
  /\ genOp' = name

GenGetValue ==
  /\ gen.type = "RND" /\ RandomRegenerates(gen)
        => gen.rng.drawn + gen.length <= MaxDraws
  /\ gen' = AfterRead(gen)
  /\ genOp' = "getValue"

(***************************************************************************)
(* Kodeq: ExpressionEvaluator (expression.cpp).  An expression is the      *)
(* sequence of its lexical units; `it' is the position in it.              *)
(***************************************************************************)
\* call frames the machine stack holds before it is exhausted
StackDepth == 28

Num(v) == [k |-> "num", v |-> v, s |-> "", ds |-> <<>>]
\* a decimal literal beyond the range of int: std::stoi throws
Big == [k |-> "big", v |-> 0, s |-> "", ds |-> <<>>]
Var(n) == [k |-> "var", v |-> 0, s |-> n, ds |-> <<>>]
\* a run of letters that does not start with X or T
Ident(s) == [k |-> "name", v |-> 0, s |-> s, ds |-> <<>>]
Sym(s) == [k |-> "sym", v |-> 0, s |-> s, ds |-> <<>>]
EndTok == [k |-> "end", v |-> 0, s |-> "", ds |-> <<>>]
\* a literal as it is written: the prefix p ("#", "b", "x", "X", or "" for a
\* decimal number) and the digits after it, most significant first
Lit(p, ds) == [k |-> "lit", v |-> 0, s |-> p, ds |-> ds]
\* the letter T or t
TickTok == [k |-> "tick", v |-> 0, s |-> "", ds |-> <<>>]
\* std::isalpha(*it) && *it != 'X' && *it != 'x' && *it != 'T' && *it != 't'
StartsName(tok) == tok.k = "name" \/ (tok.k = "lit" /\ tok.s = "b")

\* std::stoi(digits, nullptr, base) on a non-empty run of digits
RECURSIVE Radix(_, _)
Radix(ds, base) ==
  IF ds = <<>> THEN 0
  ELSE base * Radix(SubSeq(ds, 1, Len(ds) - 1), base) + ds[Len(ds)]

Peek(toks, it) == IF it <= Len(toks) THEN toks[it] ELSE EndTok
IsSym(tok, s) == tok.k = "sym" /\ tok.s = s

\* &, |, ^ on two's complement ints
RECURSIVE BitAnd(_, _)
BitAnd(a, b) ==
  IF a = 0 \/ b = 0 THEN 0
  ELSE IF a = -1 THEN b
  ELSE IF b = -1 THEN a
  ELSE 2 * BitAnd(a \div 2, b \div 2) + (a % 2) * (b % 2)
BitOr(a, b) == a + b - BitAnd(a, b)
BitXor(a, b) == a + b - 2 * BitAnd(a, b)

\* the levels with parseAdditive and parseShift in each other's place
LevelOpsShiftFirst ==
  <<{"*", "/", "%"}, {"<<", ">>"}, {"+", "-"}, {"<", "<=", ">", ">="},
    {"==", "!="}, {"&"}, {"^"}, {"|"}, {"&&"}, {"||"}>>

\* the operators of the ten binary levels, parseTerm .. parseLogicalOr
LevelOps ==
  <<{"*", "/", "%"}, {"+", "-"}, {"<<", ">>"}, {"<", "<=", ">", ">="},
    {"==", "!="}, {"&"}, {"^"}, {"|"}, {"&&"}, {"||"}>>

\* a shift count outside the width of the operand is undefined
Defined(op, l, r) ==
  CASE op = "<<" -> r \in 0..15 /\ l \in 0..32767
    [] op = ">>" -> r \in 0..31
    [] OTHER -> TRUE

Truth(b) == IF b THEN 1 ELSE 0
ApplyOp(op, l, r) ==
  CASE op = "*" -> l * r
    [] op = "/" -> CDiv(l, r)
    [] op = "%" -> CRem(l, r)
    [] op = "+" -> l + r
    [] op = "-" -> l - r
    [] op = "<<" -> l * (2 ^ r)
    [] op = ">>" -> l \div (2 ^ r)
    [] op = "<" -> Truth(l < r)
    [] op = "<=" -> Truth(l <= r)
    [] op = ">" -> Truth(l > r)
    [] op = ">=" -> Truth(l >= r)
    [] op = "==" -> Truth(l = r)
    [] op = "!=" -> Truth(l # r)
    [] op = "&" -> BitAnd(l, r)
    [] op = "^" -> BitXor(l, r)
    [] op = "|" -> BitOr(l, r)
    [] op = "&&" -> Truth(l # 0 /\ r # 0)
    [] op = "||" -> Truth(l # 0 \/ r # 0)

\* The state of an evaluation: the value returned, the position `it', the
\* generators (a read of a Random generator can regenerate it), the outputs
\* the parser's generator gives next, whether a diagnostic was printed, and
\* how the evaluation goes on: "ok", "throw" (an exception is in flight),
\* "overflow" (the stack is exhausted), or "unmodelled" (undefined behaviour
\* or a draw beyond the outputs listed).
Fail(S, how) == [S EXCEPT !.status = how]
Diag(S) == [S EXCEPT !.v = 0, !.diag = TRUE]

\* parser.getVariable(varName), then value->toInt()
ReadVariable(K, S, n) ==
  IF K.variables[n] = 0 THEN Diag(S)
  ELSE LET val == K.vals[K.variables[n]]
       IN  IF val.cls = "IntValue" THEN [S EXCEPT !.v = val.value]
           ELSE IF val.module \notin DOMAIN S.mods THEN Fail(S, "unmodelled")
           ELSE LET m == S.mods[val.module]
                IN  IF Cardinality(getValue(m)) # 1
                       \/ (m.type = "RND" /\ RandomRegenerates(m)
                             /\ m.rng.drawn + m.length > MaxDraws)
                    THEN Fail(S, "unmodelled")
                    ELSE [S EXCEPT !.v = CHOOSE x \in getValue(m) : TRUE,
                                   !.mods[val.module] = AfterRead(m)]

\* KodeqParser::getRandom: std::uniform_int_distribution<int>(lo, hi) applied
\* to the next output of the static mt19937, which std::random_device seeded;
\* lo > hi is outside the precondition of the distribution
getRandom(S, lo, hi) ==
  IF lo > hi \/ S.rng = <<>> THEN Fail(S, "unmodelled")
  ELSE [S EXCEPT !.v = lo + (Head(S.rng) % (hi - lo + 1)), !.rng = Tail(@)]

\* the functions with ABS taking its first argument whatever their number
CallFunctionAnyCount(S, name, args) ==
  CASE name = "MIN" ->
         IF Len(args) # 2 THEN Diag(S) ELSE [S EXCEPT !.v = CMin(args[1], args[2])]
    [] name = "MAX" ->
         IF Len(args) # 2 THEN Diag(S) ELSE [S EXCEPT !.v = CMax(args[1], args[2])]
    [] name = "ABS" ->
         IF Len(args) = 0 THEN Diag(S)
         ELSE [S EXCEPT !.v = IF args[1] < 0 THEN -args[1] ELSE args[1]]
    [] name = "CLAMP" ->
         IF Len(args) # 3 THEN Diag(S)
         ELSE [S EXCEPT !.v = CMin(CMax(args[1], args[2]), args[3])]
    [] name = "RND" ->
         IF Len(args) # 2 THEN Diag(S) ELSE getRandom(S, args[1], args[2])
    [] OTHER -> Diag(S)

\* MIN, MAX, ABS, CLAMP, RND and the unknown function
CallFunction(S, name, args) ==
  CASE name = "MIN" ->
         IF Len(args) # 2 THEN Diag(S) ELSE [S EXCEPT !.v = CMin(args[1], args[2])]
    [] name = "MAX" ->
         IF Len(args) # 2 THEN Diag(S) ELSE [S EXCEPT !.v = CMax(args[1], args[2])]
    [] name = "ABS" ->
         IF Len(args) # 1 THEN Diag(S)
         ELSE [S EXCEPT !.v = IF args[1] < 0 THEN -args[1] ELSE args[1]]
    [] name = "CLAMP" ->
         IF Len(args) # 3 THEN Diag(S)
         ELSE [S EXCEPT !.v = CMin(CMax(args[1], args[2]), args[3])]
    [] name = "RND" ->
         IF Len(args) # 2 THEN Diag(S) ELSE getRandom(S, args[1], args[2])
    [] OTHER -> Diag(S)

RECURSIVE parsePrimary(_, _, _, _), parseFunction(_, _, _, _),
          parseArguments(_, _, _, _, _, _), parseLevel(_, _, _, _, _),
          parseLoop(_, _, _, _, _), parseConditional(_, _, _, _),
          NextArgument(_, _, _, _, _, _), ApplyRight(_, _, _, _, _, _),
          AfterCondition(_, _, _, _), AfterThen(_, _, _, _, _)

\* ExpressionEvaluator::parseFunction, called with d frames on the stack
parseFunction(K, toks, S, d) ==
  IF S.status # "ok" THEN S
  ELSE IF d > StackDepth THEN Fail(S, "overflow")
  ELSE IF Peek(toks, S.it).k = "end" THEN [S EXCEPT !.v = 0]
  ELSE IF ~StartsName(Peek(toks, S.it)) \/ Peek(toks, S.it).k = "lit"
             \/ ~IsSym(Peek(toks, S.it + 1), "(")
       \* "it = funcStart; return parsePrimary(it, end);"
       THEN parsePrimary(K, toks, S, d + 1)
  ELSE IF IsSym(Peek(toks, S.it + 2), ")")
       THEN CallFunction([S EXCEPT !.it = @ + 3], Peek(toks, S.it).s, <<>>)
  ELSE parseArguments(K, toks, [S EXCEPT !.it = @ + 2], d, Peek(toks, S.it).s, <<>>)

\* the argument loop of parseFunction: one argument, then what follows it
parseArguments(K, toks, S, d, name, args) ==
  NextArgument(K, toks, d, name, args, parseConditional(K, toks, S, d + 1))

NextArgument(K, toks, d, name, args, a) ==
  IF a.status # "ok" THEN a
  ELSE IF IsSym(Peek(toks, a.it), ")")
       THEN CallFunction([a EXCEPT !.it = @ + 1], name, Append(args, a.v))
  ELSE IF IsSym(Peek(toks, a.it), ",")
       THEN parseArguments(K, toks, [a EXCEPT !.it = @ + 1], d, name, Append(args, a.v))
  ELSE Diag(a)

\* parsePrimary, "(" expr ")": the closing parenthesis
CloseParen(toks, a) ==
  IF a.status # "ok" THEN a
  ELSE IF IsSym(Peek(toks, a.it), ")") THEN [a EXCEPT !.it = @ + 1]
  ELSE Diag(a)

\* parsePrimary, "-" primary and "~" primary
Negated(a) == [a EXCEPT !.v = -a.v]
Complement(a) == [a EXCEPT !.v = -a.v - 1]

\* KodeqParser::parseLiteral on "#" and the binary digits read, or "X" and
\* the hex digits read, and std::stoi on the decimal digits read
LiteralValue(S, p, ds) ==
  IF ds = <<>> THEN [S EXCEPT !.v = 0, !.it = @ + 1]
  ELSE IF Radix(ds, CASE p = "#" -> 2 [] p \in {"x", "X"} -> 16 [] OTHER -> 10) > IntMax
       THEN Fail(S, "throw")
  ELSE [S EXCEPT !.v = Radix(ds, CASE p = "#" -> 2 [] p \in {"x", "X"} -> 16
                                   [] OTHER -> 10),
                 !.it = @ + 1]

\* ExpressionEvaluator::parsePrimary, called with d frames on the stack
parsePrimary(K, toks, S, d) ==
  IF S.status # "ok" THEN S
  ELSE IF d > StackDepth THEN Fail(S, "overflow")
  ELSE IF Peek(toks, S.it).k = "sym" \/ StartsName(Peek(toks, S.it))
       THEN CASE StartsName(Peek(toks, S.it)) -> parseFunction(K, toks, S, d + 1)
              [] IsSym(Peek(toks, S.it), "(") ->
                   CloseParen(toks, parseConditional(K, toks, [S EXCEPT !.it = @ + 1], d + 1))
              [] IsSym(Peek(toks, S.it), "-") \/ IsSym(Peek(toks, S.it), "~") ->
                   IF IsSym(Peek(toks, S.it), "-")
                   THEN Negated(parsePrimary(K, toks, [S EXCEPT !.it = @ + 1], d + 1))
                   ELSE Complement(parsePrimary(K, toks, [S EXCEPT !.it = @ + 1], d + 1))
              [] OTHER -> Diag(S)
  ELSE CASE Peek(toks, S.it).k = "end" -> Diag(S)
         [] Peek(toks, S.it).k = "var" ->
              ReadVariable(K, [S EXCEPT !.it = @ + 1], Peek(toks, S.it).s)
         [] Peek(toks, S.it).k = "num" -> [S EXCEPT !.v = Peek(toks, S.it).v, !.it = @ + 1]
         [] Peek(toks, S.it).k = "big" -> Fail(S, "throw")
         [] Peek(toks, S.it).k = "lit" ->
              LiteralValue(S, Peek(toks, S.it).s, Peek(toks, S.it).ds)
         [] Peek(toks, S.it).k = "tick" -> [S EXCEPT !.v = K.tickCounter, !.it = @ + 1]
         [] OTHER -> Diag(S)

\* parseTerm (level 1) .. parseLogicalOr (level 10); level 0 is parsePrimary
parseLevel(K, toks, S, d, level) ==
  IF S.status # "ok" THEN S
  ELSE IF d > StackDepth THEN Fail(S, "overflow")
  ELSE IF level = 0 THEN parsePrimary(K, toks, S, d)
  ELSE parseLoop(K, toks, parseLevel(K, toks, S, d + 1, level - 1), d, level)

\* the "while (true)" of a binary level, left operand in S.v
parseLoop(K, toks, S, d, level) ==
  IF S.status # "ok" THEN S
  ELSE IF ~(Peek(toks, S.it).k = "sym" /\ Peek(toks, S.it).s \in LevelOps[level]) THEN S
  ELSE ApplyRight(K, toks, S, d, level,
                  parseLevel(K, toks, [S EXCEPT !.it = @ + 1], d + 1, level - 1))

\* the operator at S.it applied to the left operand S.v and the right one
ApplyRight(K, toks, S, d, level, right) ==
  IF right.status # "ok" THEN right
  ELSE IF Peek(toks, S.it).s \in {"/", "%"} /\ right.v = 0 THEN Diag(right)
  ELSE IF ~Defined(Peek(toks, S.it).s, S.v, right.v) THEN Fail(right, "unmodelled")
  ELSE parseLoop(K, toks,
                 [right EXCEPT !.v = ApplyOp(Peek(toks, S.it).s, S.v, right.v)],
                 d, level)

\* ExpressionEvaluator::parseConditional
parseConditional(K, toks, S, d) ==
  IF S.status # "ok" THEN S
  ELSE IF d > StackDepth THEN Fail(S, "overflow")
  ELSE AfterCondition(K, toks, d, parseLevel(K, toks, S, d + 1, 10))

\* "condition ? trueValue : falseValue" after the condition c
AfterCondition(K, toks, d, c) ==
  IF c.status # "ok" \/ ~IsSym(Peek(toks, c.it), "?") THEN c
  ELSE AfterThen(K, toks, d, c,
                 parseConditional(K, toks, [c EXCEPT !.it = @ + 1], d + 1))

\* the value chosen once the false branch f is parsed
Chosen(c, t, f) ==
  IF f.status # "ok" THEN f ELSE [f EXCEPT !.v = IF c.v # 0 THEN t.v ELSE f.v]

AfterThen(K, toks, d, c, t) ==
  IF t.status # "ok" THEN t
  ELSE IF ~IsSym(Peek(toks, t.it), ":") THEN Diag(t)
  ELSE Chosen(c, t, parseConditional(K, toks, [t EXCEPT !.it = @ + 1], d + 1))

\* evaluate: input left over after the expression is reported
Finished(toks, r) ==
  IF r.status = "ok" /\ r.it <= Len(toks) THEN [r EXCEPT !.diag = TRUE] ELSE r

\* ExpressionEvaluator::evaluate, called from parseLine
evaluate(K, toks) ==
  Finished(toks, parseConditional(K, toks,
             [v |-> 0, it |-> 1, mods |-> K.mods, rng |-> K.rng, diag |-> FALSE,
              status |-> "ok"], 1))

(***************************************************************************)
(* Kodeq: KodeqParser (parser.cpp) and the values it owns (value.hpp).     *)
(* The parser is the record K: variables (name -> address of a BaseValue,  *)
(* 0 when the name is not in the map), tickCounter, and the free store:    *)
(* vals (address -> IntValue or ModuleValue) and mods (address ->          *)
(* generator).                                                             *)
(***************************************************************************)
VARIABLES
  parser,      \* the KodeqParser and the objects on the free store
  lineResult,  \* what the last parseLine call did: "true", "false", "aborted"
  lastLine,    \* history: the last line entered, and whether it printed a
               \* diagnostic
  nParsed      \* history: number of lines entered

kodeqVars == <<parser, lineResult, lastLine, nParsed>>

\* lines of one session
MaxParsed == 3

KNames == {"A", "B", "C"}
\* std::map<char, BaseValue *> iterates in key order
KNameOrder == <<"A", "B", "C">>

Extend(f, a, x) == [y \in DOMAIN f \cup {a} |-> IF y = a THEN x ELSE f[y]]
Remove(f, A) == [y \in DOMAIN f \ A |-> f[y]]

\* operator new: an address no live object has
Fresh(K) ==
  CHOOSE a \in 1..(Cardinality(DOMAIN K.vals \cup DOMAIN K.mods) + 1) :
    /\ a \notin DOMAIN K.vals \cup DOMAIN K.mods
    /\ \A b \in 1..(a - 1) : b \in DOMAIN K.vals \cup DOMAIN K.mods

IntValue(v) == [cls |-> "IntValue", value |-> v, module |-> 0]
ModuleValue(m) == [cls |-> "ModuleValue", value |-> 0, module |-> m]

\* ~ModuleValue deletes the module it owns
DeleteValue(K, a) ==
  [K EXCEPT !.vals = Remove(@, {a}), !.mods = Remove(@, {K.vals[a].module})]

\* KodeqParser::setVariable: deletes the old value, stores the new one
setKodeqVariable(K, name, a) ==
  LET D == IF K.variables[name] # 0 THEN DeleteValue(K, K.variables[name]) ELSE K
  IN  [D EXCEPT !.variables[name] = a]

\* setVariable(name, new IntValue(v))
AssignInt(K, name, v) ==
  setKodeqVariable([K EXCEPT !.vals = Extend(@, Fresh(K), IntValue(v))], name, Fresh(K))

\* setVariable(name, new ModuleValue(m)) for a module already at address m
AssignModule(K, name, m) ==
  setKodeqVariable([K EXCEPT !.vals = Extend(@, Fresh(K), ModuleValue(m))], name,
                   Fresh(K))

\* "Module *clonedModule = modVal->getModule()->clone()": where the clone is
ClonedAtSource(src, fresh) == src
ClonedAt(src, fresh) == fresh

\* the variable-reference assignment $X = $Y of parseLine
CopyVariable(K, name, src) ==
  LET val == K.vals[K.variables[src]]
  IN  IF val.cls = "IntValue" THEN AssignInt(K, name, val.value)
      ELSE LET c == ClonedAt(val.module, Fresh(K))
           IN  AssignModule([K EXCEPT !.mods = Extend(@, c, cloneModule(K.mods[val.module]))],
                            name, c)

\* "ModuleFactory::createModule(exprStr) != nullptr" leaves its module on the
\* free store; new ModuleValue(exprStr) creates a second one
CreateVariable(K, name, type) ==
  LET P == [K EXCEPT !.mods = Extend(@, Fresh(K), createModule(type))]
      Q == [P EXCEPT !.mods = Extend(@, Fresh(P), createModule(type))]
  IN  AssignModule(Q, name, Fresh(P))

\* the generator a name stands for, the int of an IntValue, or "none"
Deref(K, name) ==
  IF K.variables[name] = 0 THEN [type |-> "none"]
  ELSE LET val == K.vals[K.variables[name]]
       IN  IF val.cls = "IntValue" THEN [type |-> "INTEGER", value |-> val.value]
           ELSE IF val.module \in DOMAIN K.mods THEN K.mods[val.module]
           ELSE [type |-> "freed"]

IsModule(K, name) ==
  K.variables[name] # 0 /\ K.vals[K.variables[name]].cls = "ModuleValue"

\* KodeqParser::advanceTick: the counter, then every MODULE variable
TickModule(m, t) ==
  IF m.type \in {"PAT", "EUC"}
  THEN setParameter(setParameter(m, "POS", t), "I", t)
  ELSE setParameter(m, "POS", t)

RECURSIVE TickFrom(_, _)
TickFrom(K, i) ==
  IF i > Len(KNameOrder) THEN K
  ELSE LET n == KNameOrder[i]
           m == K.vals[K.variables[n]].module
       IN  TickFrom(IF IsModule(K, n)
                    THEN [K EXCEPT !.mods[m] = TickModule(@, K.tickCounter)]
                    ELSE K, i + 1)

advanceTickNoWrap(K) == TickFrom([K EXCEPT !.tickCounter = @ + 1], 1)
advanceTick(K) == TickFrom([K EXCEPT !.tickCounter = (@ + 1) % 256], 1)

\* KodeqParser::runTicks
RECURSIVE runTicks(_, _)
runTicks(K, count) == IF count <= 0 THEN K ELSE runTicks(advanceTick(K), count - 1)

(***************************************************************************)
(* A line is its first whitespace-separated token (head), the parameter    *)
(* name when the head is $X.PARAM, and the lexical units of the tokens     *)
(* after it (rest).                                                        *)
(***************************************************************************)
Param(n) == [k |-> "param", v |-> 0, s |-> n, ds |-> <<>>]
Line(text, head, param, rest) ==
  [text |-> text, head |-> head, param |-> param, rest |-> rest]

\* "tokens.size() >= 3 && tokens[1] == "=""
HasAssign(line) == Len(line.rest) >= 2 /\ IsSym(line.rest[1], "=")
ExprOf(line) == Tail(line.rest)

\* isInteger(exprStr) || isBinaryPattern(exprStr) || isHexPattern(exprStr)
IsLiteral(expr) ==
  \/ Len(expr) = 1 /\ expr[1].k \in {"num", "big"}
  \/ Len(expr) = 2 /\ IsSym(expr[1], "-") /\ expr[2].k \in {"num", "big"}

\* tokens[2] is ROTATE($Y,amount) or REVERSE($Y), $Y a variable reference
IsRotate(expr) ==
  /\ Len(expr) = 6 /\ expr[1] = Ident("ROTATE") /\ IsSym(expr[2], "(")
  /\ expr[3].k = "var" /\ IsSym(expr[4], ",") /\ expr[5].k = "num"
  /\ IsSym(expr[6], ")")
IsReverse(expr) ==
  /\ Len(expr) = 4 /\ expr[1] = Ident("REVERSE") /\ IsSym(expr[2], "(")
  /\ expr[3].k = "var" /\ IsSym(expr[4], ")")

\* the outcome of a parseLine call: the parser after it, what the call did,
\* and whether a diagnostic was printed
Outcome(K, res, diag) == [K |-> K, res |-> res, diag |-> diag]

\* KodeqParser::processPatternOperation: [done, K].  The source pattern is
\* overwritten ("srcPattern->setParameter("P", originalPattern)" with
\* originalPattern = 0) and the new PatternModule allocated before the
\* destination token is looked at.
processPatternOperation(K, line) ==
  LET expr == ExprOf(line)
      src == expr[3].s
  IN  IF HasAssign(line) /\ (IsRotate(expr) \/ IsReverse(expr))
         /\ IsModule(K, src) /\ Deref(K, src).type = "PAT"
      THEN LET m == K.vals[K.variables[src]].module
               Z == [K EXCEPT !.mods[m] = setParameter(@, "P", 0)]
               N == [Z EXCEPT !.mods = Extend(@, Fresh(Z),
                                              setParameter(createModule("PAT"), "P", 0))]
           IN  IF line.head.k = "var"
               THEN [done |-> TRUE, K |-> AssignModule(N, line.head.s, Fresh(Z))]
               ELSE [done |-> FALSE, K |-> N]
      ELSE [done |-> FALSE, K |-> K]

\* KodeqParser::setModuleParameter
setModuleParameter(K, name, param, value) ==
  IF ~IsModule(K, name) THEN Outcome(K, "false", TRUE)
  ELSE Outcome([K EXCEPT !.mods[K.vals[K.variables[name]].module] =
                           setParameter(@, param, value)], "true", FALSE)

\* what is left of an evaluation that did not return a value: an exception
\* caught by parseLine's handler, or the stack exhausted
Unfinished(K, r) ==
  IF r.status = "throw" THEN Outcome([K EXCEPT !.mods = r.mods, !.rng = r.rng], "false", TRUE)
  ELSE Outcome([K EXCEPT !.mods = r.mods, !.rng = r.rng], "aborted", FALSE)

\* an outcome, with the diagnostics of the evaluation before it
WithDiag(o, diag) == [o EXCEPT !.diag = @ \/ diag]

\* the module parameter setting $X.PARAM = expr of parseLine, r the
\* evaluation of expr
SetFrom(K, line, r) ==
  IF r.status # "ok" THEN Unfinished(K, r)
  ELSE WithDiag(setModuleParameter([K EXCEPT !.mods = r.mods, !.rng = r.rng], line.head.s,
                                   line.param, r.v), r.diag)

ParameterLine(K, line) == SetFrom(K, line, evaluate(K, ExprOf(line)))

\* the complex-expression branch of the assignment, r the evaluation
AssignFrom(K, name, r) ==
  IF r.status # "ok" THEN Unfinished(K, r)
  ELSE Outcome(AssignInt([K EXCEPT !.mods = r.mods, !.rng = r.rng], name, r.v), "true", r.diag)

\* the variable assignment $X = expr of parseLine
AssignmentLine(K, line) ==
  IF IsLiteral(ExprOf(line))
  THEN IF ExprOf(line)[Len(ExprOf(line))].k = "big"
       \* parseLiteral is not inside a try block
       THEN Outcome(K, "aborted", FALSE)
       ELSE Outcome(AssignInt(K, line.head.s,
                              IF Len(ExprOf(line)) = 2 THEN -ExprOf(line)[2].v
                              ELSE ExprOf(line)[1].v),
                    "true", FALSE)
  ELSE IF Len(ExprOf(line)) = 1 /\ ExprOf(line)[1].k = "var"
  THEN IF K.variables[ExprOf(line)[1].s] = 0 THEN Outcome(K, "false", TRUE)
       \* "$X = $X": the source is deleted by setVariable and then read
       \* again for the message
       ELSE Outcome(CopyVariable(K, line.head.s, ExprOf(line)[1].s),
                    IF ExprOf(line)[1].s = line.head.s THEN "undefined" ELSE "true",
                    FALSE)
  ELSE IF Len(ExprOf(line)) = 1 /\ ExprOf(line)[1].k = "name"
          /\ ExprOf(line)[1].s \in ModuleTypes
  THEN Outcome(CreateVariable(K, line.head.s, ExprOf(line)[1].s), "true", FALSE)
  ELSE AssignFrom(K, line.head.s, evaluate(K, ExprOf(line)))

\* parseLine after processPatternOperation returned po
AfterPattern(line, po) ==
  IF po.done THEN Outcome(po.K, "true", FALSE)
  ELSE IF line.head.k = "param" /\ HasAssign(line) THEN ParameterLine(po.K, line)
  ELSE IF line.head.k = "var" /\ HasAssign(line) THEN AssignmentLine(po.K, line)
  ELSE Outcome(po.K, "false", TRUE)

\* KodeqParser::parseLine, for lines that do not start with IF, REPEAT or RND(
parseLine(K, line) ==
  IF line.head = Ident("RUN") /\ Len(line.rest) >= 1
  THEN IF line.rest[1].k = "num"
       THEN Outcome(runTicks(K, line.rest[1].v), "true", FALSE)
       ELSE Outcome(K, "false", TRUE)
  ELSE AfterPattern(line, processPatternOperation(K, line))

\* the evaluation r a line needs stays inside what is modelled, and so do the
\* draws of a Random generator whose parameter the line sets
ModelledResult(K, line, r) ==
  /\ r.status # "unmodelled"
  /\ (line.head.k = "param" /\ Deref(K, line.head.s).type = "RND" /\ r.status = "ok")
       => /\ r.mods[K.vals[K.variables[line.head.s]].module].rng.drawn
               + DrawsOf(r.mods[K.vals[K.variables[line.head.s]].module],
                         line.param, r.v) <= MaxDraws
          /\ line.param = "SEED" => r.v \in DOMAIN RngStream

Modelled(K, line) ==
  (HasAssign(line) /\ (line.head.k = "param"
                          \/ (line.head.k = "var" /\ ~IsLiteral(ExprOf(line)))))
    => ModelledResult(K, line, evaluate(K, ExprOf(line)))

LAssign(text, n, expr) == Line(text, Var(n), "", <<Sym("=")>> \o expr)
LParam(text, n, p, expr) == Line(text, Param(n), p, <<Sym("=")>> \o expr)

\* the lines of a session: valid ones and one of every kind of error
KodeqLines ==
  {LAssign("$A = PAT", "A", <<Ident("PAT")>>),
   LParam("$A.P = 5", "A", "P", <<Num(5)>>),
   LAssign("$A = 5", "A", <<Num(5)>>),
   LAssign("$B = $A + 1", "B", <<Var("A"), Sym("+"), Num(1)>>),
   LAssign("$B = MIN($A, 2)", "B",
           <<Ident("MIN"), Sym("("), Var("A"), Sym(","), Num(2), Sym(")")>>),
   LAssign("$B = FOO", "B", <<Ident("FOO")>>),
   LAssign("$B = FOO(1)", "B", <<Ident("FOO"), Sym("("), Num(1), Sym(")")>>),
   LAssign("$B = $C", "B", <<Var("C")>>),
   LAssign("$B = 7 / 0", "B", <<Num(7), Sym("/"), Num(0)>>),
   LAssign("$B = (1", "B", <<Sym("("), Num(1)>>),
   LAssign("$B = 99999999999", "B", <<Big>>),
   Line("HELLO", Ident("HELLO"), "", <<>>),
   Line("FOO = ROTATE($A,1)", Ident("FOO"), "",
        <<Sym("="), Ident("ROTATE"), Sym("("), Var("A"), Sym(","), Num(1), Sym(")")>>),
   Line("RUN 1", Ident("RUN"), "", <<Num(1)>>)}

\* the lines of a session that creates, copies, changes, reads and ticks
CopyLines ==
  {LAssign("$A = " \o t, "A", <<Ident(t)>>) : t \in ModuleTypes}
    \cup
  {LAssign("$A = 5", "A", <<Num(5)>>),
   LAssign("$B = $A", "B", <<Var("A")>>),
   LAssign("$C = $B", "C", <<Var("B")>>),
   LParam("$A.POS = 3", "A", "POS", <<Num(3)>>),
   LParam("$A.P = 50", "A", "P", <<Num(50)>>),
   LParam("$B.I = 3", "B", "I", <<Num(3)>>),
   LAssign("$C = $A + 0", "C", <<Var("A"), Sym("+"), Num(0)>>),
   Line("RUN 1", Ident("RUN"), "", <<Num(1)>>)}

NoLine == [text |-> "", diag |-> FALSE, outs |-> <<>>, runs |-> <<>>]

InitKodeq ==
  /\ parser = [variables |-> [n \in KNames |-> 0], tickCounter |-> 0,
               vals |-> <<>>, mods |-> <<>>, rng |-> <<>>]
  /\ lineResult = "none"
  /\ lastLine = NoLine
  /\ nParsed = 0

\* what the session holds once parseLine ended with outcome o
Entered(line, o) ==
  /\ parser' = o.K
  /\ lineResult' \in IF o.res = "undefined" THEN {"true", "aborted"} ELSE {o.res}
  /\ lastLine' = [text |-> line.text, diag |-> o.diag, outs |-> <<>>, runs |-> <<>>]

\* the terminal hands one line to parser.parseLine; a call that does not
\* return ends the session
enterLine(line) ==
  /\ lineResult # "aborted"
  /\ nParsed < MaxParsed
  /\ Modelled(parser, line)
  /\ Entered(line, parseLine(parser, line))
  /\ nParsed' = nParsed + 1

(***************************************************************************)
(* Control forms: `REPEAT count DO command` and `IF cond THEN command`.    *)
(* Such a line holds the lexical units of its expression in rest and the   *)
(* line after DO / THEN in cmd (NoLine: the line has no DO / THEN or fewer *)
(* than four tokens).  The outcome of a command carries two histories:     *)
(* outs, the results of the executions a REPEAT made of its command, and   *)
(* runs, the number of executions made at each depth of nesting.           *)
(***************************************************************************)
RepeatLine(text, count, cmd) ==
  [text |-> text, head |-> Ident("REPEAT"), param |-> "", rest |-> count, cmd |-> cmd]
CondLine(text, cond, cmd) ==
  [text |-> text, head |-> Ident("IF"), param |-> "", rest |-> cond, cmd |-> cmd]

Ran(o, outs, runs) ==
  [K |-> o.K, res |-> o.res, diag |-> o.diag, outs |-> outs, runs |-> runs]

\* the executions of two commands, counted depth by depth
AddRuns(a, b) ==
  [k \in 1..CMax(Len(a), Len(b)) |->
     (IF k <= Len(a) THEN a[k] ELSE 0) + (IF k <= Len(b) THEN b[k] ELSE 0)]

\* evaluateExpression is called outside every try block: an exception ends
\* the program
Uncaught(K, r) ==
  Ran(Outcome([K EXCEPT !.mods = r.mods, !.rng = r.rng],
              IF r.status = "unmodelled" THEN "unmodelled" ELSE "aborted", FALSE),
      <<>>, <<>>)

RECURSIVE parseCommand(_, _)
RECURSIVE RepeatLoop(_, _, _, _, _, _, _)
RECURSIVE RepeatNext(_, _, _, _, _, _, _)

\* KodeqParser::processRepeat, "for (int i = 0; i < count && success; ++i)
\* success = parseLine(command)": o is what the i-th parseLine returned
RepeatNextGoesOn(o, cmd, i, count, diag, outs, inner) ==
  IF o.res \in {"true", "false"}
  THEN RepeatLoop(o.K, cmd, i + 1, count, diag \/ o.diag, Append(outs, o.res),
                  AddRuns(inner, o.runs))
  ELSE Ran(WithDiag(o, diag), Append(outs, o.res),
           <<i + 1>> \o AddRuns(inner, o.runs))
RepeatNext(o, cmd, i, count, diag, outs, inner) ==
  IF o.res = "true"
  THEN RepeatLoop(o.K, cmd, i + 1, count, diag \/ o.diag, Append(outs, o.res),
                  AddRuns(inner, o.runs))
  ELSE Ran(WithDiag(o, diag), Append(outs, o.res),
           <<i + 1>> \o AddRuns(inner, o.runs))

RepeatLoop(K, cmd, i, count, diag, outs, inner) ==
  IF i >= count THEN Ran(Outcome(K, "true", diag), outs, <<i>> \o inner)
  ELSE RepeatNext(parseCommand(K, cmd), cmd, i, count, diag, outs, inner)

\* KodeqParser::processRepeat, r the evaluation of the count expression
processRepeat(K, line, r) ==
  IF line.cmd = NoLine THEN Ran(Outcome(K, "false", FALSE), <<>>, <<>>)
  ELSE IF r.status # "ok" THEN Uncaught(K, r)
  ELSE RepeatLoop([K EXCEPT !.mods = r.mods, !.rng = r.rng], line.cmd, 0, r.v,
                  r.diag, <<>>, <<>>)

\* KodeqParser::processConditional, r the evaluation of the condition
processConditional(K, line, r) ==
  IF line.cmd = NoLine THEN Ran(Outcome(K, "false", FALSE), <<>>, <<>>)
  ELSE IF r.status # "ok" THEN Uncaught(K, r)
  ELSE IF r.v # 0
       THEN Ran(WithDiag(parseCommand([K EXCEPT !.mods = r.mods, !.rng = r.rng],
                                      line.cmd), r.diag), <<>>, <<>>)
       ELSE Ran(Outcome([K EXCEPT !.mods = r.mods, !.rng = r.rng], "true", r.diag),
                <<>>, <<>>)

\* KodeqParser::parseLine, the dispatch on tokens[0]
parseCommand(K, line) ==
  IF line.head = Ident("REPEAT") THEN processRepeat(K, line, evaluate(K, line.rest))
  ELSE IF line.head = Ident("IF") THEN processConditional(K, line, evaluate(K, line.rest))
  ELSE IF ~Modelled(K, line) THEN Ran(Outcome(K, "unmodelled", FALSE), <<>>, <<>>)
  ELSE Ran(parseLine(K, line), <<>>, <<>>)

\* what the session holds once parseLine ended with outcome o
CommandEntered(line, o) ==
  /\ parser' = o.K
  /\ lineResult' = o.res
  /\ lastLine' = [text |-> line.text, diag |-> o.diag, outs |-> o.outs,
                  runs |-> o.runs]

\* the terminal hands a line to parser.parseLine
enterCommand(line) ==
  /\ lineResult # "aborted"
  /\ nParsed < MaxParsed
  /\ parseCommand(parser, line).res \notin {"unmodelled", "undefined"}
  /\ CommandEntered(line, parseCommand(parser, line))
  /\ nParsed' = nParsed + 1

\* the lines of a session with control forms
RunOne == Line("RUN 1", Ident("RUN"), "", <<Num(1)>>)
Hello == Line("HELLO", Ident("HELLO"), "", <<>>)
RepeatInputs ==
  {RepeatLine("REPEAT -1 DO RUN 1", <<Sym("-"), Num(1)>>, RunOne),
   RepeatLine("REPEAT 0 DO RUN 1", <<Num(0)>>, RunOne),
   RepeatLine("REPEAT 1 DO RUN 1", <<Num(1)>>, RunOne),
   RepeatLine("REPEAT 3 DO RUN 1", <<Num(3)>>, RunOne),
   RepeatLine("REPEAT 3 DO HELLO", <<Num(3)>>, Hello),
   RepeatLine("REPEAT 2 DO", <<Num(2)>>, NoLine),
   RepeatLine("REPEAT 2 DO REPEAT 3 DO RUN 1", <<Num(2)>>,
              RepeatLine("REPEAT 3 DO RUN 1", <<Num(3)>>, RunOne)),
   RepeatLine("REPEAT 3 DO REPEAT 0 DO RUN 1", <<Num(3)>>,
              RepeatLine("REPEAT 0 DO RUN 1", <<Num(0)>>, RunOne)),
   RepeatLine("REPEAT 2 DO REPEAT 3 DO HELLO", <<Num(2)>>,
              RepeatLine("REPEAT 3 DO HELLO", <<Num(3)>>, Hello)),
   RepeatLine("REPEAT 5 DO IF $A THEN HELLO", <<Num(5)>>,
              CondLine("IF $A THEN HELLO", <<Var("A")>>, Hello))}
RepeatLines ==
  RepeatInputs \cup
  {LAssign("$A = RND", "A", <<Ident("RND")>>),
   LParam("$A.POS = 16", "A", "POS", <<Num(16)>>)}

\* the terminal's `tick` command and its `t` key: parser.advanceTick()
tickCommand ==
  /\ lineResult # "aborted"
  /\ nParsed < MaxParsed
  /\ parser' = advanceTick(parser)
  /\ lastLine' = [text |-> "tick", diag |-> FALSE, outs |-> <<>>, runs |-> <<>>]
  /\ nParsed' = nParsed + 1
  /\ UNCHANGED lineResult

\* `RUN n` lines: std::stoi(tokens[1]) is n
RunCounts == <<0, 1, 2, 7, -1>>
RunTexts == <<"RUN 0", "RUN 1", "RUN 2", "RUN 7", "RUN -1">>
RunLines ==
  {Line(RunTexts[i], Ident("RUN"), "", <<Num(RunCounts[i])>>) : i \in DOMAIN RunCounts}

\* both engines after t ticks of a session that created nothing
StartTicks == 0..255
InitTicked ==
  \E t \in StartTicks :
    /\ variables = [n \in Names |-> NoObj]
    /\ eventQueue = <<>>
    /\ tickCounter = t
    /\ currentEvents = <<>>
    /\ pc = "idle"
    /\ nextInst = 1
    /\ tickNo = 0
    /\ evInfo = <<>>
    /\ midiCalls = <<>>
    /\ noteTrig = [n \in Names |-> [at |-> 0, clean |-> FALSE]]
    /\ nLines = 0
    /\ parser = [variables |-> [n \in KNames |-> 0], tickCounter |-> t,
                 vals |-> <<>>, mods |-> <<>>, rng |-> <<>>]
    /\ lineResult = "none"
    /\ lastLine = NoLine
    /\ nParsed = 0

(***************************************************************************)
(* ExpressionEvaluator called on one expression                            *)
(* (KodeqParser::evaluateExpression): the expression is drawn when the     *)
(* session starts, and one call of evaluate() gives its outcome.           *)
(***************************************************************************)
VARIABLES
  expr,                 \* the lexical units of the expression handed over
  exprOut               \* what evaluate() gave: value, diagnostic, position

exprVars == <<expr, exprOut>>

MaxOperand == 2
Operands == 0..MaxOperand
BinaryOps == UNION {LevelOps[l] : l \in 1..10}

\* a op b op c, with and without parentheses
FlatInputs ==
  {<<Num(a), Sym(o1), Num(b), Sym(o2), Num(c)>> :
     a \in Operands, b \in Operands, c \in Operands,
     o1 \in BinaryOps, o2 \in BinaryOps}
GroupedInputs ==
  {<<Sym("("), Num(a), Sym(o1), Num(2), Sym(")"), Sym(o2), Num(c)>> :
     a \in Operands, c \in Operands, o1 \in BinaryOps, o2 \in BinaryOps}
  \cup {<<Num(a), Sym(o1), Sym("("), Num(2), Sym(o2), Num(c), Sym(")")>> :
          a \in Operands, c \in Operands, o1 \in BinaryOps, o2 \in BinaryOps}
\* - and ~ before the left and the right operand of a binary operator
UnaryInputs ==
  {<<Sym(u), Num(a), Sym(o), Num(b)>> :
     u \in {"-", "~"}, a \in Operands, b \in Operands, o \in BinaryOps}
  \cup {<<Num(a), Sym(o), Sym(u), Num(b)>> :
          u \in {"-", "~"}, a \in Operands, b \in Operands, o \in BinaryOps}
  \cup {<<Sym(u), Sym(w), Num(a)>> : u \in {"-", "~"}, w \in {"-", "~"}, a \in Operands}
\* ?: after, before and inside another ?:, and next to a binary operator
ConditionalInputs ==
  {<<Num(a), Sym("?"), Num(2), Sym(":"), Num(c), Sym("?"), Num(4), Sym(":"), Num(5)>> :
     a \in Operands, c \in Operands}
  \cup {<<Num(a), Sym("?"), Num(c), Sym("?"), Num(2), Sym(":"), Num(4), Sym(":"), Num(5)>> :
          a \in Operands, c \in Operands}
  \cup {<<Num(a), Sym(o), Num(b), Sym("?"), Num(4), Sym(":"), Num(5)>> :
          a \in Operands, b \in Operands, o \in BinaryOps}
  \cup {<<Num(a), Sym("?"), Num(4), Sym(":"), Num(b), Sym(o), Num(c)>> :
          a \in Operands, b \in Operands, c \in Operands, o \in BinaryOps}
\* 2+3*4, 1<<2+1 and 1?2:3?4:5
Example1 == <<Num(2), Sym("+"), Num(3), Sym("*"), Num(4)>>
Example2 == <<Num(1), Sym("<<"), Num(2), Sym("+"), Num(1)>>
Example3 ==
  <<Num(1), Sym("?"), Num(2), Sym(":"), Num(3), Sym("?"), Num(4), Sym(":"), Num(5)>>
PrecedenceInputs ==
  FlatInputs \cup GroupedInputs \cup UnaryInputs \cup ConditionalInputs
    \cup {Example1, Example2, Example3}

\* a / 0 and a % 0 followed by one or two more operators
DivZeroInputs ==
  {<<Num(a), Sym(z), Num(0), Sym(o), Num(b)>> :
     z \in {"/", "%"}, o \in BinaryOps, a \in Operands, b \in Operands \ {0}}
  \cup {<<Num(a), Sym(z), Num(0), Sym("*"), Num(b), Sym("+"), Num(1)>> :
          z \in {"/", "%"}, a \in Operands, b \in Operands \ {0}}

\* literals of up to MaxDigits digits in the four notations, and T
MaxDigits == 3
RECURSIVE DigitStrings(_, _)
DigitStrings(digits, n) ==
  IF n = 0 THEN {}
  ELSE {<<x>> : x \in digits}
         \cup {Append(ds, x) : ds \in DigitStrings(digits, n - 1), x \in digits}
Literals ==
  {Lit(p, ds) : p \in {"#", "b"}, ds \in DigitStrings({0, 1}, MaxDigits)}
    \cup {Lit(p, ds) : p \in {"x", "X"}, ds \in DigitStrings({0, 9, 10, 15}, MaxDigits)}
    \cup {Lit("", ds) : ds \in DigitStrings({0, 1, 9}, MaxDigits)}
    \cup {TickTok}
LiteralInputs ==
  {<<l>> : l \in Literals} \cup {<<l, Sym("+"), Num(1)>> : l \in Literals}

\* calls of the five functions with no argument up to MaxArgs arguments,
\* alone and as the left operand of + 1
MaxArgs == 4
FunctionNames == {"MIN", "MAX", "ABS", "CLAMP", "RND"}
ArgValues == {-1, 0, 2}
ArgLists == UNION {[1..n -> ArgValues] : n \in 0..MaxArgs}
ArgToks(v) == IF v < 0 THEN <<Sym("-"), Num(-v)>> ELSE <<Num(v)>>
RECURSIVE Listed(_)
Listed(vs) ==
  IF vs = <<>> THEN <<>>
  ELSE IF Len(vs) = 1 THEN ArgToks(vs[1])
  ELSE ArgToks(vs[1]) \o <<Sym(",")>> \o Listed(Tail(vs))
Called(name, vs, more) ==
  <<Ident(name), Sym("(")>> \o Listed(vs) \o <<Sym(")")>>
    \o (IF more THEN <<Sym("+"), Num(1)>> ELSE <<>>)
FunctionInputs ==
  {Called(name, vs, more) : name \in FunctionNames, vs \in ArgLists, more \in BOOLEAN}

ExprInputs ==
  PrecedenceInputs \cup DivZeroInputs \cup LiteralInputs \cup FunctionInputs
\* the parser the evaluator belongs to: its tick counter and the next output
\* of its generator, varied for the expressions that read them
ExprTicks == {0, 7}
ExprDraws == {<<0>>, <<1>>, <<2>>, <<5>>}
ReadsTick(e) == \E i \in 1..Len(e) : e[i].k = "tick"
CallsRandom(e) == \E i \in 1..Len(e) : e[i] = Ident("RND")
ExprParsers(e) ==
  {[variables |-> [n \in KNames |-> 0], tickCounter |-> t, vals |-> <<>>,
    mods |-> <<>>, rng |-> u] :
     t \in IF ReadsTick(e) THEN ExprTicks ELSE {0},
     u \in IF CallsRandom(e) THEN ExprDraws ELSE {<<0>>}}

NoOut == [done |-> FALSE, v |-> 0, diag |-> FALSE, status |-> "ok", it |-> 0]

InitNoExpr ==
  /\ expr = <<>>
  /\ exprOut = NoOut

InitExpr ==
  /\ expr \in ExprInputs
  /\ parser \in ExprParsers(expr)
  /\ lineResult = "none"
  /\ lastLine = NoLine
  /\ nParsed = 0
  /\ exprOut = NoOut

\* what the caller holds once evaluate() ended in r
Evaluated(r) ==
  /\ exprOut' = [done |-> TRUE, v |-> r.v, diag |-> r.diag, status |-> r.status,
                 it |-> r.it]
  /\ parser' = [parser EXCEPT !.mods = r.mods, !.rng = r.rng]

\* KodeqParser::evaluateExpression
evaluateExpression ==
  /\ ~exprOut.done
  /\ Evaluated(evaluate(parser, expr))
  /\ UNCHANGED <<expr, lineResult, lastLine, nParsed>>

(***************************************************************************)
(* One runtime object reached through BaseObject::setAttribute and         *)
(* BaseObject::getAttribute, as the attribute lines of the parser reach it. *)
(***************************************************************************)
VARIABLES
  obj,                  \* the object
  attrOut,              \* the last call: its name, its argument and what it gave
  nOps                  \* calls made

objVars == <<obj, attrOut, nOps>>
fnVars == <<exprVars, objVars>>

MaxOps == 2

\* the names the calls are made with: every name a class tests for, the
\* note_<k> names of a first, a last, an absent and a malformed step, and
\* names no class tests for
AttrNames ==
  {"value", "data", "pos", "position", "length", "step", "max", "min",
   "channel", "note", "velocity", "duration", "playing", "controller", "cc",
   "midi_channel", "midi_velocity", "midi_enable", "note_map", "note_base",
   "note_0", "note_15", "note_16", "note_x", "bogus", "Data"}
\* value->getValue() of the object assigned
AttrValues == {-1, 0, 17, 300}

NoAttr == [op |-> "none", name |-> "", arg |-> 0, ok |-> TRUE, cls |-> "none", v |-> 0]

InitNoObj ==
  /\ obj = NoObj
  /\ attrOut = NoAttr
  /\ nOps = 0

InitFn == InitNoExpr /\ InitNoObj

InitObj ==
  /\ obj \in {createObject(t, 1) : t \in Types}
  /\ attrOut = NoAttr
  /\ nOps = 0

\* the 8-bit patterns, and `step` values that leave other values than 0 and 1
\* in the steps: (5 << 4) | 3 and (255 << 4) | 7
DataValues == 0..255
StepWrites == {0, 83, 4087}

\* a sequence whose steps were written before
InitSeq ==
  /\ obj \in {setAttribute(createObject(t, 1), "step", w).obj :
                t \in {"seq", "midi_seq"}, w \in StepWrites}
  /\ attrOut = NoAttr
  /\ nOps = 0

\* what the caller holds once obj->setAttribute(name, value) ended in r
AttributeSet(name, v, r) ==
  /\ obj' = r.obj
  /\ midiCalls' = midiCalls \o Stamp(r.calls, tickNo)
  /\ attrOut' = [op |-> "set", name |-> name, arg |-> v, ok |-> r.ok,
                 cls |-> "none", v |-> 0]

\* obj->setAttribute(name, value)
objSetAttribute(name, v) ==
  /\ nOps < MaxOps
  /\ nOps' = nOps + 1
  /\ AttributeSet(name, v, setAttribute(obj, name, v))
  /\ UNCHANGED <<variables, eventQueue, tickCounter, currentEvents, pc, nextInst,
                 tickNo, evInfo, noteTrig, nLines>>

\* what the caller holds once obj->getAttribute(name) ended in r
AttributeGot(name, r) ==
  attrOut' = [op |-> "get", name |-> name, arg |-> 0, ok |-> r.ok, cls |-> r.cls,
              v |-> r.v]

\* obj->getAttribute(name)
objGetAttribute(name) ==
  /\ nOps < MaxOps
  /\ nOps' = nOps + 1
  /\ AttributeGot(name, getAttribute(obj, name))
  /\ UNCHANGED <<obj, envVars>>

(***************************************************************************)
(* Specifications.                                                         *)
(***************************************************************************)
vars == <<envVars, midiVars, genVars, kodeqVars, pipeVars, fnVars>>

InitPipe == lastPipeline = NoPipeline

Init == InitEnv /\ InitMidi /\ InitGen /\ InitKodeq /\ InitPipe /\ InitFn

NextEnv ==
  \/ \E c \in CreateInputs : processClassCreation(c[1], c[2]) /\ UNCHANGED <<midiVars, genVars, kodeqVars, pipeVars, fnVars>>
  \/ \E a \in AttrInputs : processAttributeSet(a[1], a[2], a[3]) /\ UNCHANGED <<midiVars, genVars, kodeqVars, pipeVars, fnVars>>
  \/ \E m \in MethodInputs : processMethodCall(m[1], m[2]) /\ UNCHANGED <<midiVars, genVars, kodeqVars, pipeVars, fnVars>>
  \/ QueueChainEvent /\ UNCHANGED <<midiVars, genVars, kodeqVars, pipeVars, fnVars>>
  \/ TickUpdate /\ UNCHANGED <<midiVars, genVars, kodeqVars, pipeVars, fnVars>>
  \/ TickTake /\ UNCHANGED <<midiVars, genVars, kodeqVars, pipeVars, fnVars>>
  \/ TickExec /\ UNCHANGED <<midiVars, genVars, kodeqVars, pipeVars, fnVars>>
  \/ TickReturn /\ UNCHANGED <<midiVars, genVars, kodeqVars, pipeVars, fnVars>>

\* the parse/tick thread alone
EnvSpec == Init /\ [][NextEnv]_vars

NextMidi ==
  \/ initialize /\ UNCHANGED <<envVars, genVars, kodeqVars, pipeVars, fnVars>>
  \/ \E d \in DeviceInputs : openOutputDevice(d) /\ UNCHANGED <<envVars, genVars, kodeqVars, pipeVars, fnVars>>
  \/ startProcessing /\ UNCHANGED <<envVars, genVars, kodeqVars, pipeVars, fnVars>>
  \/ stopProcessing /\ UNCHANGED <<envVars, genVars, kodeqVars, pipeVars, fnVars>>
  \/ stopJoin /\ UNCHANGED <<envVars, genVars, kodeqVars, pipeVars, fnVars>>
  \/ cleanup /\ UNCHANGED <<envVars, genVars, kodeqVars, pipeVars, fnVars>>
  \/ cleanupJoin /\ UNCHANGED <<envVars, genVars, kodeqVars, pipeVars, fnVars>>
  \/ \E t \in Clients, m \in QueueInputs : queueMessage(t, m) /\ UNCHANGED <<envVars, genVars, kodeqVars, pipeVars, fnVars>>
  \/ \E t \in Clients : queuePush(t) /\ UNCHANGED <<envVars, genVars, kodeqVars, pipeVars, fnVars>>
  \/ \E i \in MidiSendInputs : send("main", i[1], i[2], i[3], i[4]) /\ UNCHANGED <<envVars, genVars, kodeqVars, pipeVars, fnVars>>
  \/ sendReturn("main") /\ UNCHANGED <<envVars, genVars, kodeqVars, pipeVars, fnVars>>
  \/ \E c \in ConsumerIds : consumerLoop(c) /\ UNCHANGED <<envVars, genVars, kodeqVars, pipeVars, fnVars>>
  \/ \E c \in ConsumerIds : consumerLock(c) /\ UNCHANGED <<envVars, genVars, kodeqVars, pipeVars, fnVars>>
  \/ \E c \in ConsumerIds : consumerTake(c) /\ UNCHANGED <<envVars, genVars, kodeqVars, pipeVars, fnVars>>
  \/ \E c \in ConsumerIds : consumerSend(c) /\ UNCHANGED <<envVars, genVars, kodeqVars, pipeVars, fnVars>>
  \/ \E c \in ConsumerIds : consumerSinkReturn(c) /\ UNCHANGED <<envVars, genVars, kodeqVars, pipeVars, fnVars>>

\* the clients of the MIDI manager and its consumer thread, any interleaving
MidiSpec == Init /\ [][NextMidi]_vars

\* every thread that can take a step is scheduled: the consumer runs, a
\* client inside queueMessage pushes and unlocks, the sink returns
MidiFairSpec ==
  /\ MidiSpec
  /\ \A c \in ConsumerIds : WF_vars(consumerStep(c) /\ UNCHANGED <<envVars, genVars, kodeqVars, pipeVars, fnVars>>)
  /\ \A t \in Clients : WF_vars(queuePush(t) /\ UNCHANGED <<envVars, genVars, kodeqVars, pipeVars, fnVars>>)
  /\ WF_vars(sendReturn("main") /\ UNCHANGED <<envVars, genVars, kodeqVars, pipeVars, fnVars>>)
  /\ WF_vars(stopJoin /\ UNCHANGED <<envVars, genVars, kodeqVars, pipeVars, fnVars>>)
  /\ WF_vars(cleanupJoin /\ UNCHANGED <<envVars, genVars, kodeqVars, pipeVars, fnVars>>)

NextSend ==
  \/ initialize /\ UNCHANGED <<envVars, genVars, kodeqVars, pipeVars, fnVars>>
  \/ \E d \in DeviceInputs : openOutputDevice(d) /\ UNCHANGED <<envVars, genVars, kodeqVars, pipeVars, fnVars>>
  \/ cleanup /\ UNCHANGED <<envVars, genVars, kodeqVars, pipeVars, fnVars>>
  \/ \E t \in Clients, m \in QueueInputs : queueMessage(t, m) /\ UNCHANGED <<envVars, genVars, kodeqVars, pipeVars, fnVars>>
  \/ \E t \in Clients : queuePush(t) /\ UNCHANGED <<envVars, genVars, kodeqVars, pipeVars, fnVars>>
  \/ \E i \in SendInputs : send("main", i[1], i[2], i[3], i[4]) /\ UNCHANGED <<envVars, genVars, kodeqVars, pipeVars, fnVars>>
  \/ sendReturn("main") /\ UNCHANGED <<envVars, genVars, kodeqVars, pipeVars, fnVars>>

\* the send operations of a manager whose consumer thread was not started
SendSpec == Init /\ [][NextSend]_vars

NextEncode ==
  \/ initialize /\ UNCHANGED <<envVars, genVars, kodeqVars, pipeVars, fnVars>>
  \/ \E d \in DeviceInputs : openOutputDevice(d) /\ UNCHANGED <<envVars, genVars, kodeqVars, pipeVars, fnVars>>
  \/ \E i \in EncodeInputs : send("main", i[1], i[2], i[3], i[4]) /\ UNCHANGED <<envVars, genVars, kodeqVars, pipeVars, fnVars>>
  \/ sendReturn("main") /\ UNCHANGED <<envVars, genVars, kodeqVars, pipeVars, fnVars>>

\* the send operations called with arguments inside and outside their ranges
EncodeSpec == Init /\ [][NextEncode]_vars

NextGen ==
  \/ \E i \in GenInputs(gen.type) : GenSetParameter(i[1], i[2]) /\ UNCHANGED <<envVars, midiVars, kodeqVars, pipeVars, fnVars>>
  \/ GenGetValue /\ UNCHANGED <<envVars, midiVars, kodeqVars, pipeVars, fnVars>>

GenInit == InitEnv /\ InitMidi /\ InitAnyGen /\ InitKodeq /\ InitPipe /\ InitFn

\* one generator of any type, driven through setParameter and getValue
GenSpec == GenInit /\ [][NextGen]_vars

\* a session runs one of the two programs
KodeqSession == nLines = 0 /\ tickNo = 0 /\ pc = "idle"
ReeliaSession == nParsed = 0

CopyInputs == {<<"b", "a">>, <<"a", "b">>}

NextCopy ==
  \/ \E line \in CopyLines :
       KodeqSession /\ enterLine(line) /\ UNCHANGED <<envVars, midiVars, genVars, pipeVars, fnVars>>
  \/ \E t \in Types :
       ReeliaSession /\ processClassCreation("a", t) /\ UNCHANGED <<midiVars, genVars, kodeqVars, pipeVars, fnVars>>
  \/ \E c \in CopyInputs :
       ReeliaSession /\ processVariableAssignment(c[1], c[2]) /\ UNCHANGED <<midiVars, genVars, kodeqVars, pipeVars, fnVars>>
  \/ \E a \in AttrInputs :
       ReeliaSession /\ processAttributeSet(a[1], a[2], a[3]) /\ UNCHANGED <<midiVars, genVars, kodeqVars, pipeVars, fnVars>>
  \/ ReeliaSession /\ processMethodCall("a", "start") /\ UNCHANGED <<midiVars, genVars, kodeqVars, pipeVars, fnVars>>
  \/ ReeliaSession /\ TickUpdate /\ UNCHANGED <<midiVars, genVars, kodeqVars, pipeVars, fnVars>>
  \/ ReeliaSession /\ TickTake /\ UNCHANGED <<midiVars, genVars, kodeqVars, pipeVars, fnVars>>
  \/ ReeliaSession /\ TickExec /\ UNCHANGED <<midiVars, genVars, kodeqVars, pipeVars, fnVars>>
  \/ ReeliaSession /\ TickReturn /\ UNCHANGED <<midiVars, genVars, kodeqVars, pipeVars, fnVars>>

\* sessions that create, copy, change, read and tick variables
CopySpec == Init /\ [][NextCopy]_vars

NextKodeq ==
  \E line \in KodeqLines : enterLine(line) /\ UNCHANGED <<envVars, midiVars, genVars, pipeVars, fnVars>>

\* one Kodeq session: lines entered at the terminal, valid and invalid
KodeqSpec == Init /\ [][NextKodeq]_vars

PipeCreateInputs == {<<"a", "count">>, <<"b", "midi_seq">>, <<"b", "seq">>}

NextPipe ==
  \/ \E c \in PipeCreateInputs :
       processClassCreation(c[1], c[2]) /\ UNCHANGED <<midiVars, genVars, kodeqVars, pipeVars, fnVars>>
  \/ \E p \in PipeInputs :
       processPipeline(p) /\ UNCHANGED <<midiVars, genVars, kodeqVars, fnVars>>
  \/ TickUpdate /\ UNCHANGED <<midiVars, genVars, kodeqVars, pipeVars, fnVars>>
  \/ TickTake /\ UNCHANGED <<midiVars, genVars, kodeqVars, pipeVars, fnVars>>
  \/ TickExec /\ UNCHANGED <<midiVars, genVars, kodeqVars, pipeVars, fnVars>>
  \/ TickReturn /\ UNCHANGED <<midiVars, genVars, kodeqVars, pipeVars, fnVars>>

\* a Reelia session with pipeline lines
PipeSpec == Init /\ [][NextPipe]_vars

NextExpr ==
  evaluateExpression /\ UNCHANGED <<envVars, midiVars, genVars, pipeVars, objVars>>

ExprInit == InitEnv /\ InitMidi /\ InitGen /\ InitExpr /\ InitPipe /\ InitNoObj

\* one expression handed to the evaluator
ExprSpec == ExprInit /\ [][NextExpr]_vars

NextAttr ==
  \/ \E name \in AttrNames, v \in AttrValues :
       objSetAttribute(name, v) /\ UNCHANGED <<midiVars, genVars, kodeqVars, pipeVars, exprVars>>
  \/ \E name \in AttrNames :
       objGetAttribute(name) /\ UNCHANGED <<midiVars, genVars, kodeqVars, pipeVars, exprVars>>

AttrInit == InitEnv /\ InitMidi /\ InitGen /\ InitKodeq /\ InitPipe /\ InitNoExpr /\ InitObj

\* one object of any class, its attributes set and read
AttrSpec == AttrInit /\ [][NextAttr]_vars

NextTick ==
  \/ TickUpdate /\ UNCHANGED <<midiVars, genVars, kodeqVars, pipeVars, fnVars>>
  \/ TickTake /\ UNCHANGED <<midiVars, genVars, kodeqVars, pipeVars, fnVars>>
  \/ TickReturn /\ UNCHANGED <<midiVars, genVars, kodeqVars, pipeVars, fnVars>>
  \/ tickCommand /\ UNCHANGED <<envVars, midiVars, genVars, pipeVars, fnVars>>
  \/ \E line \in RunLines : enterLine(line) /\ UNCHANGED <<envVars, midiVars, genVars, pipeVars, fnVars>>

TickInit == InitTicked /\ InitMidi /\ InitGen /\ InitPipe /\ InitFn

\* the tick counters of the two engines, from any value they can hold
TickSpec == TickInit /\ [][NextTick]_vars

NextRepeat ==
  \E line \in RepeatLines : enterCommand(line) /\ UNCHANGED <<envVars, midiVars, genVars, pipeVars, fnVars>>

\* one Kodeq session with REPEAT and IF lines
RepeatSpec == Init /\ [][NextRepeat]_vars

NextData ==
  \/ \E v \in DataValues :
       objSetAttribute("data", v) /\ UNCHANGED <<midiVars, genVars, kodeqVars, pipeVars, exprVars>>
  \/ objGetAttribute("data") /\ UNCHANGED <<midiVars, genVars, kodeqVars, pipeVars, exprVars>>

DataInit == InitEnv /\ InitMidi /\ InitGen /\ InitKodeq /\ InitPipe /\ InitNoExpr /\ InitSeq

\* one sequence, its data attribute set and read
DataSpec == DataInit /\ [][NextData]_vars

(***************************************************************************)
(* Properties of the Environment (EnvSpec).                                *)
(***************************************************************************)
EventIds == 1..Len(evInfo)
Queued(id) == \E k \in 1..Len(eventQueue) : eventQueue[k].id = id
Pending(id) == \E k \in 1..Len(currentEvents) : currentEvents[k].id = id

\* the tick() call whose drain holds the event when the queue is taken
ExpectedExec(i) == IF i.enqPhase = "update" THEN i.enqTick ELSE i.enqTick + 1

\* C1: tick() takes the whole queue and leaves an empty one before any event
\* runs; every event in the queue at that moment runs exactly once in that
\* tick, and an event enqueued by a running event waits, still queued, for the
\* drain of the following tick.
C1_DrainWholeQueueOnce ==
  \A id \in EventIds :
    LET i == evInfo[id]
        e == ExpectedExec(i)
    IN /\ Len(i.execTicks) <= 1
       /\ i.execTicks # <<>> =>
            i.execTicks[1] = e /\ ~Queued(id) /\ ~Pending(id)
       /\ i.execTicks = <<>> =>
            \/ Pending(id) /\ ~Queued(id) /\ pc = "drain" /\ tickNo = e
            \/ Queued(id) /\ ~Pending(id)
                 /\ (tickNo < e \/ (tickNo = e /\ pc = "take"))
       /\ (pc = "drain" /\ Queued(id)) => (i.enqPhase = "drain" /\ i.enqTick = tickNo)

\* C1 happens: an event enqueued by a running event ran in the following tick
C1_Witness ==
  \E id \in EventIds :
    /\ evInfo[id].enqPhase = "drain"
    /\ evInfo[id].execTicks = <<evInfo[id].enqTick + 1>>

\* C2: the note-off a MIDI sequence enqueues in the onTick pass runs in the
\* following tick() call, never in the call that enqueued it.
C2_SeqNoteOffInFollowingTick ==
  \A id \in EventIds :
    (evInfo[id].kind = "NoteOff" /\ evInfo[id].enqPhase = "update") =>
      \A k \in 1..Len(evInfo[id].execTicks) :
        evInfo[id].execTicks[k] = evInfo[id].enqTick + 1

\* the calls an object made after its k-th, and the note-ons of its triggers
CallsAfter(inst, k) ==
  {j \in (k + 1)..Len(midiCalls) : midiCalls[j].by = inst}
TriggerOns(inst) ==
  {k \in 1..Len(midiCalls) :
     /\ midiCalls[k].by = inst
     /\ midiCalls[k].op = "NOTE_ON"
     /\ midiCalls[k].via = "trigger"}
LastTriggerOn(inst) ==
  CHOOSE k \in TriggerOns(inst) : \A j \in TriggerOns(inst) : j <= k

\* C3: after a trigger is applied to a MIDI note of duration d (and nothing
\* else touches the note) the note-on is sent at once and the one note-off
\* that follows is sent in the d-th tick after it, not before.
C3_NoteOffAfterDuration ==
  \A n \in Names :
    noteTrig[n].clean =>
      LET o == variables[n]
          t0 == noteTrig[n].at
      IN /\ o.type = "midi_note"
         /\ TriggerOns(o.inst) # {}
         /\ LET on == LastTriggerOn(o.inst)
                after == CallsAfter(o.inst, on)
            IN /\ midiCalls[on].tick = t0
               /\ IF tickNo < t0 + o.duration
                    THEN after = {} /\ o.isPlaying
                    ELSE /\ ~o.isPlaying
                         /\ \E k \in after :
                              /\ after = {k}
                              /\ midiCalls[k].op = "NOTE_OFF"
                              /\ midiCalls[k].channel = midiCalls[on].channel
                              /\ midiCalls[k].data1 = midiCalls[on].data1
                              /\ midiCalls[k].tick = t0 + o.duration

\* C3 happens: a note of duration 2 reached the second tick after its trigger
C3_Witness ==
  \E n \in Names :
    /\ noteTrig[n].clean
    /\ variables[n].duration = 2
    /\ tickNo = noteTrig[n].at + 2
    /\ ~variables[n].isPlaying

\* the events that lines enqueued for method calls
LineMethodEvents ==
  {id \in EventIds :
     evInfo[id].enqPhase = "line" /\ evInfo[id].kind \in MethodKinds}

\* C4 as stated: the change a method call asks for is not applied while the
\* line runs, is applied exactly once, and has been applied when the onTick
\* pass of the next tick() call runs.
C4_AppliedBeforeNextUpdatePass ==
  \A id \in LineMethodEvents :
    LET i == evInfo[id] IN
    /\ Len(i.execTicks) <= 1
    /\ tickNo = i.enqTick => i.execTicks = <<>>
    /\ tickNo > i.enqTick => Len(i.execTicks) = 1

\* C4 amended: the change is not applied while the line runs; the onTick pass
\* of the next tick() call still runs without it; it is applied exactly once,
\* in the drain that ends that call, so before the onTick pass of the call
\* after it.
C4_AppliedInNextDrain ==
  \A id \in LineMethodEvents :
    LET i == evInfo[id] IN
    /\ Len(i.execTicks) <= 1
    /\ tickNo = i.enqTick => i.execTicks = <<>>
    /\ (tickNo = i.enqTick + 1 /\ pc = "take") => i.execTicks = <<>>
    /\ i.execTicks # <<>> => i.execTicks = <<i.enqTick + 1>>
    /\ (tickNo > i.enqTick + 1 \/ (tickNo = i.enqTick + 1 /\ pc = "idle"))
         => i.execTicks = <<i.enqTick + 1>>

\* C4 happens: the Start a line asked for was applied by the next drain
C4_Witness ==
  \E id \in LineMethodEvents :
    /\ evInfo[id].kind = "Start"
    /\ evInfo[id].execTicks = <<evInfo[id].enqTick + 1>>
    /\ \E n \in Names : variables[n].type = "count" /\ variables[n].running

\* the name holds the same counter before and after the step
SameCounter(n) ==
  /\ variables[n].type = "count"
  /\ variables'[n].type = "count"
  /\ variables'[n].inst = variables[n].inst

\* the line that enqueues a Start changes no object
C5_LineStep ==
  (pc = "idle" /\ pc' = "idle" /\ Len(evInfo') = Len(evInfo) + 1
     /\ evInfo'[Len(evInfo')].kind = "Start")
  => variables' = variables

\* a counter turns running only when its Start runs in the following drain
C5_TurnsRunning ==
  \A n \in Names :
    (SameCounter(n) /\ ~variables[n].running /\ variables'[n].running) =>
      /\ pc = "drain"
      /\ currentEvents # <<>>
      /\ Head(currentEvents).kind = "Start"
      /\ Head(currentEvents).target = n
      /\ evInfo[Head(currentEvents).id].enqTick + 1 = tickNo
      /\ variables'[n].value = variables[n].value

\* the Start event, when it runs, turns the counter running
C5_StartRuns ==
  \A n \in Names :
    (SameCounter(n) /\ pc = "drain" /\ currentEvents # <<>>
       /\ Head(currentEvents).kind = "Start" /\ Head(currentEvents).target = n
       /\ currentEvents' # currentEvents)
    => variables'[n].running

\* C5: the line `$c.start()` leaves a stopped counter as it is; the counter
\* turns running only in the drain of the tick() call that follows the line,
\* when its Start event runs, and that event does turn it running.
C5_StartDeferred == [][C5_LineStep /\ C5_TurnsRunning /\ C5_StartRuns]_vars

\* C5 happens: a tick() call returned with the counter started by its drain
C5_Witness ==
  \E n \in Names, id \in LineMethodEvents :
    /\ variables[n].type = "count"
    /\ variables[n].running
    /\ evInfo[id].kind = "Start"
    /\ evInfo[id].execTicks # <<>>
    /\ pc = "idle"


(***************************************************************************)
(* Properties of the MIDI manager (MidiSpec, MidiFairSpec, SendSpec).      *)
(***************************************************************************)

\* C6: only the consumer thread calls into the sink: no client (the tick/parse
\* thread calling sendNoteOn .. sendChannelPressure) is ever inside
\* midiOut->sendMessage, so at most one thread is inside it at a time.
C6_OnlyConsumerInSink ==
  /\ ClientsInSink = {}
  /\ Cardinality(ClientsInSink) + Cardinality(ConsumersInSink) <= 1

\* the queued messages handed to the sink, in the order they were handed
RECURSIVE QueuedIds(_)
QueuedIds(d) ==
  IF d = <<>> THEN <<>>
  ELSE IF Head(d).id # 0 THEN <<Head(d).id>> \o QueuedIds(Tail(d))
  ELSE QueuedIds(Tail(d))

\* ids are given in push order: a strictly increasing sequence of ids is in
\* enqueue order and names no message twice
Increasing(q) == \A i, j \in 1..Len(q) : i < j => q[i] < q[j]

\* C7: queued messages leave the queue in enqueue order, each at most once:
\* the consumer's pops and the queued messages handed to the sink are each in
\* strictly increasing push order, and what is still queued was pushed after
\* everything popped.
C7_FifoAtMostOnce ==
  /\ Increasing(dequeued)
  /\ Increasing(QueuedIds(delivered))
  /\ \A k \in 1..Len(messageQueue), i \in 1..Len(dequeued) :
       dequeued[i] < messageQueue[k].id
  /\ \A k \in 1..Len(QueuedIds(delivered)) :
       \E i \in 1..Len(dequeued) : dequeued[i] = QueuedIds(delivered)[k]

\* C7 happens: two messages were queued and both were handed to the sink
C7_Witness ==
  /\ Len(dequeued) >= 2
  /\ Len(QueuedIds(delivered)) >= 2

\* C8: at most one consumer thread exists at any time; a startProcessing call
\* on a running dispatcher and a stopProcessing call on a stopped one return
\* at once and change nothing of the dispatcher.
C8_StartStopIdempotent ==
  /\ [](Cardinality(Consumers) <= 1)
  /\ [][(startProcessing /\ running)
          => (UNCHANGED dispatcherState /\ tpc' = tpc)]_vars
  /\ [][(stopProcessing /\ ~running)
          => (UNCHANGED dispatcherState /\ tpc' = tpc)]_vars

\* C8 happens: startProcessing was called on a running dispatcher whose
\* consumer is at work on a queued message
C8_Witness ==
  /\ lastCall.op = "startProcessing"
  /\ lastCall.running
  /\ Cardinality(Consumers) = 1
  /\ dequeued # <<>>

\* what the consumers have handed to the sink
ConsumerDeliveries == Len(QueuedIds(delivered))

\* C9: stopProcessing returns (the join ends, in stopProcessing itself and when
\* cleanup calls it); once it has returned and until the next startProcessing
\* no consumer thread exists and nothing is dequeued or sent by a consumer.
C9_StopJoinsConsumer ==
  /\ (tpc["main"] \in {"joining", "cleanup_join"}) ~> (tpc["main"] = "idle")
  /\ [](processingThread = 0 => Consumers = {})
  /\ [][(processingThread = 0 /\ processingThread' = 0)
          => (dequeued' = dequeued
              /\ Len(QueuedIds(delivered')) = ConsumerDeliveries)]_vars

\* C9 happens: stopProcessing has returned from its join while a message was
\* still queued
C9_Witness ==
  /\ lastCall.op = "stopProcessing"
  /\ lastCall.running
  /\ tpc["main"] = "idle"
  /\ processingThread = 0
  /\ messageQueue # <<>>

\* C10: a send operation called while the sink is uninitialized or no port is
\* open returns false in the same step: the sink is not called, nothing is
\* queued and the dispatcher is as it was.
C10_SendFailsFast ==
  [][\A i \in SendInputs :
       (send("main", i[1], i[2], i[3], i[4]) /\ (~initialized \/ sinkPorts = {}))
         => (/\ sendResult' = "false"
             /\ tpc' = tpc
             /\ UNCHANGED dispatcherState)]_vars

\* C10 happens: sendChannelPressure was refused on an initialized manager with
\* no open port, a message waiting in the queue
C10_Witness ==
  /\ lastCall.op = "sendChannelPressure"
  /\ ~lastCall.ready
  /\ initialized
  /\ sendResult = "false"
  /\ messageQueue # <<>>
  /\ delivered = <<>>


\* C11: the sink never holds more than one connection open, an open connection
\* is the one currentOutputDevice names, and an openOutputDevice call that
\* returns true leaves exactly the requested port open and current.
C11_OneConnection ==
  /\ [](Cardinality(sinkPorts) <= 1)
  /\ [](sinkPorts # {} => sinkPorts = {currentOutputDevice})
  /\ [][\A d \in DeviceInputs :
          (openOutputDevice(d) /\ lastCall'.ret = "true")
            => (sinkPorts' = {d} /\ currentOutputDevice' = d)]_vars

\* C11 happens: with port 0 open, openOutputDevice(1) returned true
C11_Witness ==
  /\ lastCall.op = "openOutputDevice"
  /\ lastCall.ports = {0}
  /\ lastCall.ret = "true"
  /\ sinkPorts = {1}
  /\ currentOutputDevice = 1

(***************************************************************************)
(* Properties of the generators (GenSpec).                                 *)
(***************************************************************************)
\* C17: whatever setParameter calls were made, with whatever values, Euclidean
\* steps >= 1, waveform and Random length >= 1, Sequencer length in 1..16,
\* amplitude in 0..127, Square duty in 0..100, Random probability in 0..100,
\* and no divisor of a value read is zero.
C17_ParametersClamped ==
  /\ gen.type = "EUC" => gen.steps >= 1
  /\ gen.type \in WaveTypes \cup {"RND"} => gen.length >= 1
  /\ gen.type = "SEQ" => gen.length \in 1..16
  /\ gen.type \in WaveTypes => gen.amp \in 0..127
  /\ gen.type = "SQR" => gen.duty \in 0..100
  /\ gen.type = "RND" => gen.probability \in 0..100
  /\ 0 \notin Divisors(gen)

\* a Euclidean generator was given a value below 1 for N and holds steps = 1
C17_Witness ==
  /\ gen.type = "EUC"
  /\ genOp = "N"
  /\ gen.steps = 1

\* the values a Euclidean generator with the fields of gen yields over the
\* indexes 0..7
EuclideanRow == [i \in 0..7 |-> EuclideanGetValue([gen EXCEPT !.index = i])]

OtherRandom(seed, probability, length) ==
  RandomSetParameter(
    RandomSetParameter(
      RandomSetParameter(createModule("RND"), "P", probability), "LEN", length),
    "SEED", seed)

\* C18: after a regeneration (construction, or P, LEN or SEED set) a Random
\* generator holds the same boolean buffer as any other Random generator with
\* the same (seed, probability, length), whatever parameter changes led there.
C18_SameBufferForSameParameters ==
  (gen.type = "RND" /\ genOp \in {"new", "P", "LEN", "SEED"}) =>
    gen.pattern = OtherRandom(gen.seed, gen.probability, gen.length).pattern

(***************************************************************************)
(* Properties of the frame encoding (EncodeSpec).                          *)
(***************************************************************************)
\* status nibble of the message kind a send operation stands for
KindNibble(op) ==
  CASE op = "sendNoteOff" -> 128
    [] op = "sendNoteOn" -> 144
    [] op = "sendAftertouch" -> 160
    [] op = "sendCC" -> 176
    [] op = "sendProgramChange" -> 192
    [] op = "sendPitchBend" -> 224

\* the frame f is the stated encoding of the call op(channel, a, b)
Encodes(f, op, channel, a, b) ==
  /\ Len(f) = IF op = "sendProgramChange" THEN 2 ELSE 3
  /\ f[1] - KindNibble(op) \in 0..15
  /\ (f[1] - KindNibble(op) - channel) % 16 = 0
  /\ \A k \in 2..Len(f) : f[k] \in 0..127
  /\ a \in 0..127 => f[2] = a
  /\ (op \in {"sendNoteOn", "sendCC", "sendAftertouch"} /\ b \in 0..127) => f[3] = b
  /\ (op = "sendPitchBend" /\ a \in 0..16383) => f[2] + 128 * f[3] = a

\* C20: every frame sendMessage hands to the sink for a note-off, note-on,
\* polyphonic aftertouch, control-change, program-change or pitch-bend call is
\* the kind's status nibble plus the channel reduced to 0..15, followed by one
\* data byte for program-change and two for the others, every data byte in
\* 0..127 and equal to the logical value when that is in 0..127.
C20_FrameEncoding ==
  (lastCall.op \in SendOps \ {"sendChannelPressure"} /\ lastCall.ready)
    => /\ delivered # <<>>
       /\ Encodes(delivered[Len(delivered)].frame, lastCall.op,
                  lastCall.args[1], lastCall.args[2], lastCall.args[3])

\* sendNoteOn(1, 128, 64) was handed to the sink as 0x91 0x00 0x40
C20_Witness ==
  /\ lastCall.op = "sendNoteOn" /\ lastCall.args = <<1, 128, 64>>
  /\ delivered # <<>>
  /\ delivered[Len(delivered)].frame = <<145, 0, 64>>

\* C21: the frame sendMessage hands to the sink for a sendChannelPressure call
\* is the channel-pressure frame of two bytes, 0xD0 plus the channel reduced
\* to 0..15 and then the pressure, and so is not a polyphonic aftertouch
\* frame (0xA0 plus the channel, note, pressure).
C21_ChannelPressureFrame ==
  (lastCall.op = "sendChannelPressure" /\ lastCall.ready)
    => /\ delivered # <<>>
       /\ Len(delivered[Len(delivered)].frame) = 2
       /\ delivered[Len(delivered)].frame[1] = 208 + And0F(lastCall.args[1])
       /\ delivered[Len(delivered)].frame[2] = And7F(lastCall.args[2])

\* C13: parseLine returns true or false for every line and every kind of
\* error: no line makes the evaluator recurse without end or ends the session.
C13_ParseLineReturns == lineResult \in {"none", "true", "false"}

\* a line that reaches the last branch of parseLine: not RUN <count>, and not
\* an assignment to $X or $X.PARAM
Unrecognized(line) ==
  /\ ~(line.head = Ident("RUN") /\ Len(line.rest) >= 1)
  /\ ~(line.head.k \in {"param", "var"} /\ HasAssign(line))

\* what the variable table holds, name by name, and the tick counter
TableOf(K) == [table |-> [n \in KNames |-> Deref(K, n)], tickCounter |-> K.tickCounter]

\* what a line does when it is entered with the parser in state K
EffectOf(K, line) ==
  LET o == parseLine(K, line) IN [res |-> o.res, diag |-> o.diag, after |-> TableOf(o.K)]

\* C14: a line that matches no recognized form returns false with a
\* diagnostic, leaves the variable table and the tick counter unchanged, and
\* every line entered after it does what it would have done without it.
C14_InvalidLineHasNoEffect ==
  [][\A line \in KodeqLines :
       (Unrecognized(line) /\ enterLine(line))
         => /\ lineResult' = "false"
            /\ lastLine'.diag
            /\ TableOf(parser') = TableOf(parser)
            /\ \A next \in KodeqLines :
                 (Modelled(parser, next) /\ Modelled(parser', next))
                   => EffectOf(parser', next) = EffectOf(parser, next)]_vars

\* the names a line assigns to or reads
Touched(line) ==
  {line.head.s} \cup {line.rest[k].s : k \in {j \in 1..Len(line.rest) : line.rest[j].k = "var"}}

\* what the tick with counter t makes of what a name holds, alone
TickedAlone(x, t) == IF x.type \in ModuleTypes THEN TickModule(x, t) ELSE x

\* no two names hold the same value object or the same generator, and no name
\* holds a generator that was freed
DistinctInstances ==
  /\ \A n \in KNames : Deref(parser, n).type # "freed"
  /\ \A n, m \in KNames :
       (n # m /\ parser.variables[n] # 0 /\ parser.variables[m] # 0)
         => /\ parser.variables[n] # parser.variables[m]
            /\ (IsModule(parser, n) /\ IsModule(parser, m))
                 => parser.vals[parser.variables[n]].module
                      # parser.vals[parser.variables[m]].module

\* a line changes only the names it assigns to or reads; RUN 1 changes every
\* name as the tick changes it alone
LineLeavesOthers(line) ==
  IF line.head = Ident("RUN")
  THEN \A n \in KNames :
         Deref(parser', n) = TickedAlone(Deref(parser, n), (parser.tickCounter + 1) % 256)
  ELSE \A n \in KNames \ Touched(line) : Deref(parser', n) = Deref(parser, n)

\* the same for the runtime objects of the Environment: no two names hold one
\* instance
DistinctObjects ==
  \A n, m \in Names :
    (n # m /\ variables[n] # NoObj) => variables[n].inst # variables[m].inst

\* a copy is a new instance in the state of its source; an attribute set
\* changes the object of its name and a tick changes every object alone
ObjectsIndependent ==
  /\ \A c \in CopyInputs :
       processVariableAssignment(c[1], c[2])
         => /\ variables'[c[1]] = [variables[c[2]] EXCEPT !.inst = nextInst]
            /\ variables'[c[2]] = variables[c[2]]
  /\ \A a \in AttrInputs :
       processAttributeSet(a[1], a[2], a[3])
         => \A n \in Names \ {a[1]} : variables'[n] = variables[n]
  /\ TickUpdate
       => \A n \in Names :
            variables[n] # NoObj => variables'[n] = onTick(variables[n]).obj

\* C12: after a copy $X = $Y the two names hold distinct instances: the table
\* never maps two names to one instance, the copy is in the state of its
\* source, and a later parameter change, value read or tick of one name
\* leaves what the other names hold as it was; for the eight generators of
\* Kodeq and the seven runtime objects.
C12_CopiesAreIndependent ==
  /\ [](DistinctInstances /\ DistinctObjects)
  /\ [][ObjectsIndependent]_vars
  /\ [][\A line \in CopyLines :
          (nParsed' = nParsed + 1 /\ lastLine'.text = line.text /\ lineResult' = "true")
            => /\ LineLeavesOthers(line)
               /\ (line.head.k = "var" /\ Len(line.rest) = 2 /\ line.rest[2].k = "var")
                    => Deref(parser', line.head.s)
                         = (IF Deref(parser, line.rest[2].s).type \in ModuleTypes
                            THEN cloneModule(Deref(parser, line.rest[2].s))
                            ELSE Deref(parser, line.rest[2].s))]_vars

\* $B is a copy of the Random generator $A, and $A was regenerated after the
\* copy was taken
C12_Witness ==
  /\ lastLine.text = "$A.P = 50" /\ lineResult = "true"
  /\ Deref(parser, "A").type = "RND" /\ Deref(parser, "B").type = "RND"
  /\ Deref(parser, "A").pattern # Deref(parser, "B").pattern

\* target and kind of the events a pipeline line enqueues: one per segment
\* whose name is bound, in the order of the segments
ExpectedEvents(vs, segs) ==
  LET Ok(seg) == SegmentOk(vs, seg)
      ok == SelectSeq(segs, Ok)
  IN  [k \in 1..Len(ok) |-> <<ok[k][1], MethodKind(ok[k][2])>>]

\* C15: a pipeline line dispatches every segment, also those after a segment
\* that failed, and reports success exactly when every segment succeeded.
C15_PipelineDispatchesAll ==
  [][\A p \in PipeInputs :
       processPipeline(p)
         => LET exp == ExpectedEvents(variables, p)
                n == Len(eventQueue)
            IN  /\ lastPipeline'.ok = (\A k \in 1..Len(p) : SegmentOk(variables, p[k]))
                /\ Len(eventQueue') = n + Len(exp)
                /\ \A j \in 1..Len(exp) :
                     <<eventQueue'[n + j].target, eventQueue'[n + j].kind>> = exp[j]]_vars

\* `$b.stop() | $a.start()` was entered with b unbound: the line reported
\* failure and the start of a is queued
C15_Witness ==
  /\ lastPipeline.segs = <<<<"b", "stop">>, <<"a", "start">>>>
  /\ ~lastPipeline.ok
  /\ nLines = lastPipeline.line /\ tickNo = lastPipeline.tick
  /\ eventQueue # <<>>
  /\ eventQueue[Len(eventQueue)].target = "a"
  /\ eventQueue[Len(eventQueue)].kind = "Start"

Running(o) ==
  IF o.type = "count" THEN o.running ELSE IF IsSeq(o) THEN o.playing ELSE FALSE

\* the last line entered is `$a.start() | $b.start()` or `$b.start() |
\* $a.start()`, and it reported success
StartLine ==
  /\ lastPipeline.segs \in {StartAB, StartBA}
  /\ lastPipeline.ok
  /\ nLines = lastPipeline.line

\* the objects one tick after the line, whatever the order of its segments
StartedByTick(before) ==
  [n \in Names |-> ExecMethodEvent(onTick(before[n]).obj, "Start").obj]

\* the two orders lead to the same objects once the tick after the line ran
SameForBothOrders ==
  (StartLine /\ tickNo = lastPipeline.tick + 1 /\ pc = "idle")
    => variables = StartedByTick(lastPipeline.before)

\* C16 as stated: the two orders give the same state, and both a and b are
\* running after the one line.
C16_BothRunningAfterLine ==
  /\ SameForBothOrders
  /\ StartLine => Running(variables["a"]) /\ Running(variables["b"])

\* C16: the two orders give the same objects, and both a and b are running,
\* once the tick after the line has run; until that tick the line has only
\* queued the two Start events and the objects are as they were.
C16_BothRunningAfterNextTick ==
  /\ SameForBothOrders
  /\ (StartLine /\ tickNo = lastPipeline.tick)
       => /\ variables = lastPipeline.before
          /\ Len(eventQueue) >= 2
          /\ eventQueue[Len(eventQueue) - 1].kind = "Start"
          /\ eventQueue[Len(eventQueue)].kind = "Start"
          /\ eventQueue[Len(eventQueue) - 1].target = lastPipeline.segs[1][1]
          /\ eventQueue[Len(eventQueue)].target = lastPipeline.segs[2][1]
  /\ (StartLine /\ tickNo > lastPipeline.tick /\ pc = "idle")
       => Running(variables["a"]) /\ Running(variables["b"])

\* `$b.start() | $a.start()` was entered and one tick ran: both are running
C16_Witness ==
  /\ StartLine /\ lastPipeline.segs = StartBA
  /\ tickNo = lastPipeline.tick + 1 /\ pc = "idle"
  /\ ~Running(lastPipeline.before["a"]) /\ ~Running(lastPipeline.before["b"])
  /\ Running(variables["a"]) /\ Running(variables["b"])

(***************************************************************************)
(* Properties of the expression evaluator (ExprSpec).                      *)
(***************************************************************************)
\* The reference evaluation: an expression is split at its loosest operator
\* outside parentheses, the first "?" if there is one, otherwise the last
\* binary operator of the loosest level present.
RefLevel(op) ==
  CASE op \in {"*", "/", "%"} -> 3
    [] op \in {"+", "-"} -> 4
    [] op \in {"<<", ">>"} -> 5
    [] op \in {"<", ">", "<=", ">="} -> 6
    [] op \in {"==", "!="} -> 7
    [] op = "&" -> 8
    [] op = "^" -> 9
    [] op = "|" -> 10
    [] op = "&&" -> 11
    [] op = "||" -> 12

Least(S) == CHOOSE x \in S : \A y \in S : x <= y
Greatest(S) == CHOOSE x \in S : \A y \in S : y <= x

OperandEnd(tok) == tok.k \in {"num", "lit", "var", "tick"} \/ IsSym(tok, ")")
Depth(toks, i) ==
  Cardinality({j \in 1..(i - 1) : IsSym(toks[j], "(")})
    - Cardinality({j \in 1..(i - 1) : IsSym(toks[j], ")")})
TopAt(toks, i, s) == IsSym(toks[i], s) /\ Depth(toks, i) = 0
BinaryAt(toks, i) ==
  /\ i > 1
  /\ toks[i].k = "sym" /\ toks[i].s \in BinaryOps
  /\ OperandEnd(toks[i - 1])
  /\ Depth(toks, i) = 0
Binaries(toks) == {i \in 1..Len(toks) : BinaryAt(toks, i)}
Questions(toks) == {i \in 1..Len(toks) : TopAt(toks, i, "?")}
\* the ":" of the "?" at q: the first one with as many "?" as ":" in between
ColonOf(toks, q) ==
  Least({c \in (q + 1)..Len(toks) :
           /\ TopAt(toks, c, ":")
           /\ Cardinality({j \in (q + 1)..(c - 1) : TopAt(toks, j, "?")})
                = Cardinality({j \in (q + 1)..(c - 1) : TopAt(toks, j, ":")})})
SplitAt(toks) ==
  Greatest({i \in Binaries(toks) :
              \A j \in Binaries(toks) : RefLevel(toks[j].s) <= RefLevel(toks[i].s)})

\* a reference value: ok is FALSE when a division or modulo by zero, or a
\* shift the language leaves undefined, occurs anywhere in the expression
RefBad == [v |-> 0, ok |-> FALSE]
RefBinary(op, l, r) ==
  IF ~l.ok \/ ~r.ok THEN RefBad
  ELSE IF op \in {"/", "%"} /\ r.v = 0 THEN RefBad
  ELSE IF ~Defined(op, l.v, r.v) THEN RefBad
  ELSE [v |-> ApplyOp(op, l.v, r.v), ok |-> TRUE]
RefChoice(c, t, f) ==
  IF ~c.ok \/ ~t.ok \/ ~f.ok THEN RefBad ELSE IF c.v # 0 THEN t ELSE f
RefUnary(op, a) ==
  IF ~a.ok THEN RefBad ELSE [a EXCEPT !.v = IF op = "-" THEN -a.v ELSE -a.v - 1]

RECURSIVE Reference(_)
Reference(toks) ==
  IF Questions(toks) # {}
  THEN RefChoice(
         Reference(SubSeq(toks, 1, Least(Questions(toks)) - 1)),
         Reference(SubSeq(toks, Least(Questions(toks)) + 1,
                          ColonOf(toks, Least(Questions(toks))) - 1)),
         Reference(SubSeq(toks, ColonOf(toks, Least(Questions(toks))) + 1, Len(toks))))
  ELSE IF Binaries(toks) # {}
  THEN RefBinary(toks[SplitAt(toks)].s,
                 Reference(SubSeq(toks, 1, SplitAt(toks) - 1)),
                 Reference(SubSeq(toks, SplitAt(toks) + 1, Len(toks))))
  ELSE IF IsSym(toks[1], "-") \/ IsSym(toks[1], "~")
  THEN RefUnary(toks[1].s, Reference(Tail(toks)))
  ELSE IF IsSym(toks[1], "(")
  THEN Reference(SubSeq(toks, 2, Len(toks) - 1))
  ELSE [v |-> toks[1].v, ok |-> TRUE]

\* the value evaluate() returned, compared with a reference value
AgreesWith(ref) ==
  ref.ok => /\ exprOut.status = "ok"
            /\ ~exprOut.diag
            /\ exprOut.it = Len(expr) + 1
            /\ exprOut.v = ref.v

\* C22: for every expression without a division or modulo by zero, evaluate()
\* returns the value of the reference evaluation with the levels primary,
\* unary, * / %, + -, << >>, < > <= >=, == !=, &, ^, |, &&, ||, ?: (binary
\* operators grouping to the left, ?: to the right), reports nothing and
\* consumes the whole input; 2+3*4 is 14, 1<<2+1 is 8 and 1?2:3?4:5 is 2.
C22_PrecedenceLevels ==
  (exprOut.done /\ expr \in PrecedenceInputs)
    => /\ AgreesWith(Reference(expr))
       /\ expr = Example1 => exprOut.v = 14
       /\ expr = Example2 => exprOut.v = 8
       /\ expr = Example3 => exprOut.v = 2

\* 1<<2+1 was evaluated to 8
C22_Witness == exprOut.done /\ expr = Example2 /\ exprOut.v = 8 /\ Reference(expr).ok

\* the expression with its leading division or modulo by zero replaced by (0)
ZeroForDivision(toks) ==
  <<Sym("("), Num(0), Sym(")")>> \o SubSeq(toks, 4, Len(toks))

\* C23: after a division or modulo by zero, which yields 0 with a diagnostic,
\* every operator to its right is still parsed and applied, and the evaluator
\* consumes the whole input (1/0+5 is 5).
C23_EvaluationContinues ==
  (exprOut.done /\ expr \in DivZeroInputs)
    => /\ exprOut.status = "ok"
       /\ exprOut.diag
       /\ exprOut.it = Len(expr) + 1
       /\ Reference(ZeroForDivision(expr)).ok
            => exprOut.v = Reference(ZeroForDivision(expr)).v

\* the number a run of digits denotes in a base: digit times base to the
\* power of its place, summed over the places
RECURSIVE PlaceSum(_, _, _)
PlaceSum(ds, base, i) ==
  IF i > Len(ds) THEN 0
  ELSE ds[i] * base ^ (Len(ds) - i) + PlaceSum(ds, base, i + 1)
Denoted(K, lit) ==
  CASE lit.k = "tick" -> K.tickCounter
    [] lit.s \in {"#", "b"} -> PlaceSum(lit.ds, 2, 1)
    [] lit.s \in {"x", "X"} -> PlaceSum(lit.ds, 16, 1)
    [] OTHER -> PlaceSum(lit.ds, 10, 1)

\* C24: in an expression, # or b and binary digits evaluate to that binary
\* number, x or X and hex digits to that hexadecimal number, decimal digits
\* to that decimal number and T to the tick counter (so the # form and the b
\* form of the same digits give the same value), alone and as an operand.
C24_LiteralValues ==
  (exprOut.done /\ expr \in LiteralInputs)
    => /\ exprOut.status = "ok"
       /\ ~exprOut.diag
       /\ exprOut.v = Denoted(parser, expr[1]) + (IF Len(expr) = 3 THEN 1 ELSE 0)

\* the value the claim states for name(vs) when the number of arguments is
\* the function's (RND: any value of lo..hi)
Arity(name) ==
  CASE name \in {"MIN", "MAX", "RND"} -> 2 [] name = "ABS" -> 1 [] name = "CLAMP" -> 3
StatedValues(name, vs) ==
  CASE name = "MIN" -> {Least({vs[1], vs[2]})}
    [] name = "MAX" -> {Greatest({vs[1], vs[2]})}
    [] name = "ABS" -> {Greatest({vs[1], -vs[1]})}
    [] name = "CLAMP" -> {Least({Greatest({vs[1], vs[2]}), vs[3]})}
    [] name = "RND" -> vs[1]..vs[2]

\* the call an expression of FunctionInputs is: whether + 1 follows the call,
\* what is written between the parentheses, and the values that denotes
FollowedByMore(e) == ~IsSym(e[Len(e)], ")")
Written(e) == SubSeq(e, 3, Len(e) - (IF FollowedByMore(e) THEN 3 ELSE 1))
RECURSIVE ArgumentsOf(_)
ArgumentsOf(toks) ==
  IF toks = <<>> THEN <<>>
  ELSE IF IsSym(toks[1], ",") THEN ArgumentsOf(Tail(toks))
  ELSE IF IsSym(toks[1], "-")
       THEN <<-toks[2].v>> \o ArgumentsOf(SubSeq(toks, 3, Len(toks)))
  ELSE <<toks[1].v>> \o ArgumentsOf(Tail(toks))

\* the outcome of name(vs), followed by + 1 when more
CallAsStated(name, vs, more) ==
  /\ exprOut.status = "ok"
  /\ exprOut.it = Len(expr) + 1
  /\ IF Len(vs) = Arity(name)
       THEN /\ ~exprOut.diag
            /\ exprOut.v - (IF more THEN 1 ELSE 0) \in StatedValues(name, vs)
            /\ parser.rng = IF name = "RND" THEN <<>> ELSE <<0>>
       ELSE /\ exprOut.diag
            /\ exprOut.v = IF more THEN 1 ELSE 0
            /\ parser.rng # <<>>

\* C25: MIN, MAX, ABS, CLAMP and RND called with 2, 2, 1, 3 and 2 arguments
\* return the minimum, the maximum, the absolute value, min(max(v,lo),hi) and
\* an output of the parser's generator within lo..hi (lo <= hi); called with
\* another number of arguments they give 0 with a diagnostic, and in both
\* cases the evaluation goes on to the end of the expression.
C25_FunctionArity ==
  (exprOut.done /\ expr[1].k = "name")
    => /\ expr = Called(expr[1].s, ArgumentsOf(Written(expr)), FollowedByMore(expr))
       /\ ~(expr[1].s = "RND" /\ Len(ArgumentsOf(Written(expr))) = 2
              /\ ArgumentsOf(Written(expr))[1] > ArgumentsOf(Written(expr))[2])
            => CallAsStated(expr[1].s, ArgumentsOf(Written(expr)), FollowedByMore(expr))

\* ABS(-1, 0) + 1 gave 1 with a diagnostic
C25_Witness ==
  /\ exprOut.done
  /\ expr = Called("ABS", <<-1, 0>>, TRUE)
  /\ exprOut.v = 1 /\ exprOut.diag /\ exprOut.it = Len(expr) + 1

(***************************************************************************)
(* Properties of the attributes of one object (AttrSpec).                  *)
(***************************************************************************)
\* the attributes of each class: the names its objects can be assigned or
\* read under
SeqAttributes == {"data", "pos", "position", "length", "step"}
AttributesOf(type) ==
  CASE type = "int" -> {}
    [] type = "binary" -> {"value"}
    [] type = "seq" -> SeqAttributes
    [] type = "count" -> {"value", "max", "min", "step"}
    [] type = "midi_note" -> {"channel", "note", "velocity", "duration", "playing"}
    [] type = "midi_cc" -> {"channel", "controller", "cc", "value"}
    [] type = "midi_seq" ->
         SeqAttributes \cup {"midi_channel", "midi_velocity", "midi_enable",
                             "note_map", "note_base"}
           \cup {NoteStepNames[k] : k \in 1..16}

\* C26: setAttribute and getAttribute called with a name that is not an
\* attribute of the object's class fail with the unknown-attribute error and
\* leave the object as it was, for each of the seven classes.
C26_UnknownAttributeFails ==
  /\ [](attrOut.op \in {"set", "get"} /\ attrOut.name \notin AttributesOf(obj.type)
          => ~attrOut.ok)
  /\ [][(nOps' = nOps + 1 /\ attrOut'.name \notin AttributesOf(obj.type))
          => obj' = obj]_vars

(***************************************************************************)
(* Properties of the parameters of one generator (GenSpec).                *)
(***************************************************************************)
\* the parameters of each type of generator
ParametersOf(type) ==
  CASE type = "PAT" -> {"P", "I"}
    [] type = "EUC" -> {"K", "N", "I"}
    [] type \in {"SIN", "TRI", "SAW"} -> {"LEN", "POS", "A"}
    [] type = "SQR" -> {"LEN", "POS", "A", "D"}
    [] type = "RND" -> {"P", "LEN", "POS", "SEED", "REGEN"}
    [] type = "SEQ" -> {"POS", "LEN", "LOOP"} \cup {StepNames[i] : i \in 1..16}

\* C27: setParameter called with a name that is not a parameter of the
\* generator's type leaves every field of the generator as it was, for each
\* type of generator.
C27_UnknownParameterIgnored ==
  [][(genOp' \notin ParametersOf(gen.type) \cup {"getValue"}) => gen' = gen]_vars

(***************************************************************************)
(* Properties of the target of a deferred event (EnvSpec).                 *)
(***************************************************************************)
\* the step runs the event at the head of currentEvents
RunsEvent == pc = "drain" /\ currentEvents # <<>> /\ currentEvents' # currentEvents

\* every call the step makes is made by the instance inst
CallsOnlyBy(inst) ==
  \A k \in (Len(midiCalls) + 1)..Len(midiCalls') : midiCalls'[k].by = inst

\* the step acts on the object its variables bind to the name, and on nothing
\* when the name is unbound
ActsOnBound(name) ==
  /\ \A n \in Names \ {name} : variables'[n] = variables[n]
  /\ variables'[name].inst = variables[name].inst
  /\ CallsOnlyBy(variables[name].inst)
  /\ variables[name] = NoObj => (variables' = variables /\ midiCalls' = midiCalls)

\* the instance the name was bound to when the event was enqueued is gone
\* when the name was rebound since
EnqueuedIsGone(ev) ==
  evInfo[ev.id].inst # variables[ev.target].inst =>
    evInfo[ev.id].inst \notin LiveInsts(variables')

\* a line that creates an object binds its name to the new instance and
\* nothing is bound to the instance the name held before
Rebinds ==
  \E n \in Names :
    /\ variables'[n].inst = nextInst
    /\ variables[n].inst \notin LiveInsts(variables')
    /\ \A m \in Names \ {n} : variables'[m] = variables[m]

C29_DataRoundTrip ==
  [][(/\ attrOut.op = "set" /\ attrOut.name = "data"
      /\ attrOut.arg \in DataValues
      /\ nOps' = nOps + 1
      /\ attrOut'.op = "get" /\ attrOut'.name = "data")
       => (attrOut'.ok /\ attrOut'.cls = "binary" /\ attrOut'.v = attrOut.arg)]_vars

\* 10101010 was set and read back, steps 3 and 7 hold 1
C29_Witness ==
  /\ attrOut.op = "get" /\ attrOut.name = "data"
  /\ attrOut.v = 170
  /\ nOps = 2
  /\ obj.data[3] = 1
  /\ obj.data[7] = 1

(***************************************************************************)
(* Properties of the ranges of the attributes (AttrSpec).                  *)
(***************************************************************************)
\* C30: whatever integers were assigned to its attributes, a MIDINote has
\* channel in 0..15, note and velocity in 0..127 and duration >= 1, a MIDICC
\* has channel in 0..15 and controller and value in 0..127, and a Seq (a
\* MIDISeq is one) has length in 1..16.
C30_AttributeRanges ==
  /\ obj.type = "midi_note" =>
       /\ obj.channel \in 0..15
       /\ obj.note \in 0..127
       /\ obj.velocity \in 0..127
       /\ obj.duration >= 1
  /\ obj.type = "midi_cc" =>
       /\ obj.channel \in 0..15
       /\ obj.controller \in 0..127
       /\ obj.value \in 0..127
  /\ IsSeq(obj) => obj.length \in 1..16

\* -1 was assigned to the channel of a MIDINote and then 300 to its note
C30_Witness ==
  /\ obj.type = "midi_note"
  /\ nOps = 2
  /\ attrOut.op = "set" /\ attrOut.name = "note" /\ attrOut.arg = 300 /\ attrOut.ok
  /\ obj.note = 44
  /\ obj.channel = 15

(***************************************************************************)
(* Properties of the tick counters (TickSpec).                             *)
(***************************************************************************)
\* C31: the tick counter of Environment and the one of KodeqParser are always
\* in 0..255; every tick sets the counter to (previous + 1) mod 256, so 0
\* follows 255; `RUN n` with n >= 0 leaves it at (previous + n) mod 256.
C31_TickCounterWraps ==
  /\ [](tickCounter \in 0..255 /\ parser.tickCounter \in 0..255)
  /\ [][tickNo' = tickNo + 1 => tickCounter' = (tickCounter + 1) % 256]_vars
  /\ [][(nParsed' = nParsed + 1 /\ lastLine'.text = "tick")
          => parser'.tickCounter = (parser.tickCounter + 1) % 256]_vars
  /\ [][\A i \in DOMAIN RunCounts :
          (nParsed' = nParsed + 1 /\ lastLine'.text = RunTexts[i]
             /\ RunCounts[i] >= 0)
          => parser'.tickCounter = (parser.tickCounter + RunCounts[i]) % 256]_vars

\* one tick of the Environment took its counter from 255 to 0, and `RUN 7`
\* took the parser's counter from 255 to 6
C31_Witness ==
  /\ tickNo = 1 /\ tickCounter = 0
  /\ nParsed = 1 /\ lastLine.text = "RUN 7" /\ parser.tickCounter = 6

(***************************************************************************)
(* Properties of the buffer of a Random generator (GenSpec).               *)
(***************************************************************************)
\* the step filled the buffer once: after rng.seed for SEED, else from where
\* the stream stood
RegeneratedOnce ==
  /\ gen'.rng = IF genOp' = "SEED"
                  THEN [seed |-> gen'.seed, drawn |-> gen'.length]
                  ELSE [gen.rng EXCEPT !.drawn = @ + gen'.length]
  /\ gen' = generatePattern([gen' EXCEPT !.rng.drawn = @ - gen'.length])

\* the step is one that has to fill the buffer: seed, probability or length
\* set, or the first read at a position that is a multiple of the length
\* while regenerate-on-cycle is enabled
MustRegenerate ==
  \/ genOp' \in {"P", "LEN", "SEED"}
  \/ /\ genOp' = "getValue"
     /\ genOp # "getValue"
     /\ gen.regenerateOnCycle
     /\ CRem(gen.pos, gen.length) = 0

\* C32: the buffer of a Random generator is filled once by every setting of
\* seed, probability or length and by the first read at a position with
\* pos mod length = 0 (pos = 0 included) while regenerate-on-cycle is
\* enabled; every other operation leaves buffer and stream as they were.
C32_RegeneratedExactlyWhenStated ==
  [][gen.type = "RND"
       => IF MustRegenerate THEN RegeneratedOnce
          ELSE gen'.pattern = gen.pattern /\ gen'.rng = gen.rng]_vars

(***************************************************************************)
(* Properties of the delivery of queued messages (MidiFairSpec).           *)
(***************************************************************************)
InQueue(id) == \E k \in 1..Len(messageQueue) : messageQueue[k].id = id
PassedToSink(id) == \E k \in 1..Len(delivered) : delivered[k].id = id
Dropped(id) ==
  (\E k \in 1..Len(dequeued) : dequeued[k] = id)
    /\ ~PassedToSink(id) /\ \A c \in ConsumerIds : cmsg[c].id # id

\* the message is queued or in the hands of a consumer
Undelivered(id) == InQueue(id) \/ \E c \in ConsumerIds : cmsg[c].id = id
SinkOpen == SinkReady(initialized, midiOut, sinkPorts)

\* C33: with a fairly scheduled consumer, every queued message is dequeued and
\* handed to the sink unless the dispatcher is stopped or the sink is without
\* an open port in the meantime: again and again nothing is pending (or the
\* dispatcher is stopped or without a port), and a message stops being
\* pending only by being handed to the sink or by a send that failed for want
\* of a port; a consumer whose send fails is still in its loop afterwards.
C33_QueuedIsDelivered ==
  /\ []<>((\A id \in 1..MaxMsgs : ~Undelivered(id)) \/ ~running \/ ~SinkOpen)
  /\ [][\A id \in 1..MaxMsgs :
          (Undelivered(id) /\ ~Undelivered(id)') => (PassedToSink(id)' \/ ~SinkOpen)]_vars
  /\ [][\A c \in ConsumerIds :
          (cpc[c] = "send" /\ cpc'[c] # "send")
            => (cpc'[c] \in {"in_sink", "loop"} /\ running' = running)]_vars

\* the first message was dropped by a send that failed and the second one
\* was handed to the sink by the same consumer
C33_Witness ==
  /\ Dropped(1)
  /\ PassedToSink(2)
  /\ \E k \in 1..Len(delivered) : delivered[k].id = 2 /\ delivered[k].consumer = 1
  /\ processingThread = 1
  /\ lastCall.op # "startProcessing"

(***************************************************************************)
(* Properties of REPEAT (RepeatSpec).                                      *)
(***************************************************************************)
\* the count a REPEAT line states, and the number of executions it allows
CountOf(line) == IF Len(line.rest) = 1 THEN line.rest[1].v ELSE -line.rest[2].v
TimesOf(line) == CMax(CountOf(line), 0)

\* REPEAT lines that have a command
Repeats == {line \in RepeatInputs : line.cmd # NoLine}

AllTrue(outs) == \A k \in 1..Len(outs) : outs[k] = "true"

\* the step enters the line
Enters(line) == nParsed' = nParsed + 1 /\ lastLine'.text = line.text

\* C34: `REPEAT n DO cmd` executes cmd n times and returns true when every
\* execution returned true; it stops with the first execution that returns
\* false and returns false; for n <= 0 it executes nothing and returns true.
\* A `REPEAT m DO cmd2` as cmd executes cmd2 n*m times, seen in the ticks of
\* `RUN 1`.
C34_RepeatCount ==
  [][\A line \in Repeats :
       Enters(line) =>
         /\ Len(lastLine'.outs) <= TimesOf(line)
         /\ AllTrue(SubSeq(lastLine'.outs, 1, Len(lastLine'.outs) - 1))
         /\ lineResult' = "true" <=>
              (Len(lastLine'.outs) = TimesOf(line) /\ AllTrue(lastLine'.outs))
         /\ lineResult' = "false" <=>
              (lastLine'.outs # <<>> /\ ~AllTrue(lastLine'.outs))
         /\ lastLine'.runs[1] = Len(lastLine'.outs)
         /\ TimesOf(line) = 0 => parser' = parser
         /\ line.cmd = RunOne =>
              parser'.tickCounter = (parser.tickCounter + TimesOf(line)) % 256
         /\ (line.cmd.head = Ident("REPEAT") /\ line.cmd.cmd = RunOne) =>
              /\ lastLine'.runs = <<TimesOf(line), TimesOf(line) * TimesOf(line.cmd)>>
              /\ parser'.tickCounter =
                   (parser.tickCounter + TimesOf(line) * TimesOf(line.cmd)) % 256]_vars

\* `REPEAT 2 DO REPEAT 3 DO RUN 1` was entered at tick 0 and made six ticks
C34_Witness ==
  /\ lastLine.text = "REPEAT 2 DO REPEAT 3 DO RUN 1"
  /\ lastLine.runs = <<2, 6>>
  /\ lineResult = "true"
  /\ parser.tickCounter = 6

\* reachable as well: a REPEAT 5 stopped with its second execution, the first
\* one that failed
RepeatStoppedAtFailure ==
  /\ lastLine.text = "REPEAT 5 DO IF $A THEN HELLO"
  /\ lastLine.outs = <<"true", "false">>
  /\ lineResult = "false"

(***************************************************************************)
(* Properties of the note-ons of a MIDI sequence (EnvSpec).                *)
(***************************************************************************)
\* C35: a MIDI sequence sends a note-on in a tick only while its playing flag
\* is set: one that was never started, or was stopped, sends none.
C35_SilentUnlessPlaying ==
  [][\A k \in (Len(midiCalls) + 1)..Len(midiCalls') :
       \A n \in Names :
         (/\ variables[n].type = "midi_seq"
          /\ midiCalls'[k].by = variables[n].inst
          /\ midiCalls'[k].op = "NOTE_ON")
           => variables[n].playing]_vars

(***************************************************************************)
(* Properties of the note-ons of a MIDI note (EnvSpec).                    *)
(***************************************************************************)
\* the first call into the MIDI manager that instance inst makes after call k
NextCallOf(inst, k) ==
  CHOOSE m \in CallsAfter(inst, k) : \A j \in CallsAfter(inst, k) : m <= j

\* C36: every note-on of a MIDI note is followed, before the next note-on of
\* the same object and at most `duration` ticks later, by a note-off on the
\* same channel and the same note number, whatever lines and ticks come
\* between (a change of `note` while the note sounds included).
C36_NoteOnIsClosed ==
  \A k \in 1..Len(midiCalls) :
    (midiCalls[k].op = "NOTE_ON" /\ midiCalls[k].via = "trigger") =>
      IF CallsAfter(midiCalls[k].by, k) = {}
        THEN \E n \in Names :
               /\ variables[n] # NoObj
               /\ variables[n].inst = midiCalls[k].by
               /\ variables[n].type = "midi_note"
               /\ tickNo < midiCalls[k].tick + variables[n].duration
        ELSE LET m == NextCallOf(midiCalls[k].by, k)
             IN /\ midiCalls[m].op = "NOTE_OFF"
                /\ midiCalls[m].channel = midiCalls[k].channel
                /\ midiCalls[m].data1 = midiCalls[k].data1

\* the note-off of a note-on names another note number than the note-on did
NoteOffOfAnotherNote ==
  \E k \in 1..Len(midiCalls) :
    /\ midiCalls[k].op = "NOTE_ON" /\ midiCalls[k].via = "trigger"
    /\ CallsAfter(midiCalls[k].by, k) # {}
    /\ midiCalls[NextCallOf(midiCalls[k].by, k)].op = "NOTE_OFF"
    /\ midiCalls[NextCallOf(midiCalls[k].by, k)].data1 # midiCalls[k].data1

(***************************************************************************)
(* Properties of the tables the value reads access (GenSpec).              *)
(***************************************************************************)
\* the element a value read of m accesses lies inside m's table
ReadsInside(m) ==
  CASE m.type = "PAT" -> CRem(m.index, 32) \in 0..31
    [] m.type = "RND" -> CRem(m.pos, m.length) \in 0..(m.length - 1)
    [] m.type = "SEQ" -> \/ m.pos >= m.length /\ ~m.looping
                         \/ CRem(m.pos, m.length) \in 0..(m.length - 1)
    [] OTHER -> TRUE

\* C37: whatever position or index was assigned (negative ones included), a
\* value read accesses an element inside the table: a Pattern bit 0..31, a
\* Random buffer element 0..length-1, a Sequencer step 0..length-1.
C37_ReadsInsideTable ==
  genOp = "getValue" => ReadsInside(gen)

(***************************************************************************)
(* Pattern operations: sessions of `$X = ROTATE($Y,n)` and                 *)
(* `$X = REVERSE($Y)` lines over a Pattern generator.                      *)
(***************************************************************************)
RotateLine(text, dst, src, n) ==
  LAssign(text, dst,
          <<Ident("ROTATE"), Sym("("), Var(src), Sym(","), Num(n), Sym(")")>>)
ReverseLine(text, dst, src) ==
  LAssign(text, dst, <<Ident("REVERSE"), Sym("("), Var(src), Sym(")")>>)

\* the pattern operation lines, with destination, source and amount
PatternOps ==
  {[line |-> RotateLine("$B = ROTATE($A,1)", "B", "A", 1),
    op |-> "ROTATE", dst |-> "B", src |-> "A", n |-> 1],
   [line |-> RotateLine("$B = ROTATE($A,11)", "B", "A", 11),
    op |-> "ROTATE", dst |-> "B", src |-> "A", n |-> 11],
   [line |-> RotateLine("$A = ROTATE($A,1)", "A", "A", 1),
    op |-> "ROTATE", dst |-> "A", src |-> "A", n |-> 1],
   [line |-> ReverseLine("$B = REVERSE($A)", "B", "A"),
    op |-> "REVERSE", dst |-> "B", src |-> "A", n |-> 0]}

PatternLines ==
  {LAssign("$A = PAT", "A", <<Ident("PAT")>>),
   LAssign("$A = 5", "A", <<Num(5)>>),
   LParam("$A.P = 5", "A", "P", <<Num(5)>>),
   LParam("$A.P = 177", "A", "P", <<Num(177)>>),
   LParam("$A.I = 3", "A", "I", <<Num(3)>>),
   LParam("$B.P = 5", "B", "P", <<Num(5)>>)}
    \cup {o.line : o \in PatternOps}

NextPattern ==
  \E line \in PatternLines : enterLine(line) /\ UNCHANGED <<envVars, midiVars, genVars, pipeVars, fnVars>>

\* one Kodeq session of pattern operations
PatternSpec == Init /\ [][NextPattern]_vars

\* the step enters the pattern operation o and its source holds a Pattern
OperatesOnPattern(o) ==
  /\ nParsed' = nParsed + 1
  /\ lastLine'.text = o.line.text
  /\ IsModule(parser, o.src)
  /\ Deref(parser, o.src).type = "PAT"

\* C38: `$X = ROTATE($Y,n)` and `$X = REVERSE($Y)` with X other than Y leave
\* Y as it was: the same pattern and the same index after the line.
C38_SourceUnchanged ==
  [][\A o \in PatternOps :
       (OperatesOnPattern(o) /\ o.dst # o.src) =>
         /\ Deref(parser', o.src).type = "PAT"
         /\ Deref(parser', o.src).pattern = Deref(parser, o.src).pattern
         /\ Deref(parser', o.src).index = Deref(parser, o.src).index]_vars

\* the low 8 bits of p rotated left by n mod 8 places, and in reversed order
RotatedLeft8(p, n) ==
  LET low == p % 256
      k == n % 8
  IN  ((low * 2 ^ k) % 256) + (low \div 2 ^ (8 - k))
RECURSIVE ReversedFrom(_, _)
ReversedFrom(p, i) ==
  IF i > 7 THEN 0 ELSE Bit(p, i) * 2 ^ (7 - i) + ReversedFrom(p, i + 1)
Reversed8(p) == ReversedFrom(p, 0)

\* C39: `$X = ROTATE($Y,n)` binds X to the low 8 bits of Y's pattern rotated
\* left by n mod 8 places, `$X = REVERSE($Y)` to the low 8 bits of Y's
\* pattern in reversed order (bit i of Y is bit 7-i of X).
C39_ResultOfPatternOperation ==
  [][\A o \in PatternOps :
       OperatesOnPattern(o) =>
         /\ Deref(parser', o.dst).type = "PAT"
         /\ Deref(parser', o.dst).pattern =
              IF o.op = "ROTATE"
              THEN RotatedLeft8(Deref(parser, o.src).pattern, o.n)
              ELSE Reversed8(Deref(parser, o.src).pattern)]_vars

(***************************************************************************)
(* One counter: attribute assignments, start, stop, reset and ticks, from  *)
(* any state that assignments and start() lead to.                         *)
(***************************************************************************)
CountValues == {IntMin, -3, 0, 1, 5, IntMax}
CountAttrs == {"value", "max", "min", "step"}

InitCount ==
  /\ obj \in {[NewCountObject(1) EXCEPT !.value = v, !.max = mx, !.min = mn,
                                        !.step = st, !.running = r] :
                v \in CountValues, mx \in CountValues, mn \in CountValues,
                st \in CountValues, r \in BOOLEAN}
  /\ attrOut = NoAttr
  /\ nOps = 0

\* a method of the counter, called on the object
objMethod(kind) ==
  /\ nOps < MaxOps
  /\ obj.type = "count"
  /\ nOps' = nOps + 1
  /\ obj' = CASE kind = "start" -> CountStart(obj)
              [] kind = "stop" -> CountStop(obj)
              [] kind = "reset" -> CountReset(obj)
  /\ attrOut' = [NoAttr EXCEPT !.op = kind]
  /\ UNCHANGED envVars

\* obj->onTick(env).  `value += step` outside the range of int is undefined:
\* the add wraps, or a trapping build ends the process in it.
objTick ==
  /\ nOps < MaxOps
  /\ obj.type = "count"
  /\ \/ /\ obj' = CountOnTick(obj)
        /\ nOps' = nOps + 1
        /\ attrOut' = [NoAttr EXCEPT !.op = "tick"]
     \/ /\ obj.running /\ SumOverflows(obj.value, obj.step)
        /\ obj' = NoObj
        /\ nOps' = MaxOps
        /\ attrOut' = [NoAttr EXCEPT !.op = "trap"]
  /\ UNCHANGED envVars

NextCount ==
  \/ \E n \in CountAttrs, v \in CountValues : objSetAttribute(n, v) /\ UNCHANGED <<midiVars, genVars, kodeqVars, pipeVars, exprVars>>
  \/ \E k \in {"start", "stop", "reset"} : objMethod(k) /\ UNCHANGED <<midiVars, genVars, kodeqVars, pipeVars, exprVars>>
  \/ objTick /\ UNCHANGED <<midiVars, genVars, kodeqVars, pipeVars, exprVars>>

CountInit == InitEnv /\ InitMidi /\ InitGen /\ InitKodeq /\ InitPipe /\ InitNoExpr /\ InitCount

\* one counter under assignments, method calls and ticks
CountSpec == CountInit /\ [][NextCount]_vars

\* the step is a tick of the counter that returned
CountTicked == attrOut'.op = "tick" /\ nOps' = nOps + 1

\* C40: while min <= max, the value of a running counter lies in [min, max]
\* after every tick, whatever its step and its value before were; a tick
\* leaves a counter that is not running unchanged.
C40_CounterStaysInRange ==
  [][CountTicked =>
       IF obj.running
         THEN /\ obj.min <= obj.max =>
                   obj'.value >= obj.min /\ obj'.value <= obj.max
              /\ [obj' EXCEPT !.value = obj.value] = obj
         ELSE obj' = obj]_vars

\* C40 happens: a running counter of range -3..5 ticked with the largest
\* step, which takes any value past max, and is at min
C40_Witness ==
  /\ attrOut.op = "tick"
  /\ obj.running
  /\ obj.min = -3 /\ obj.max = 5
  /\ obj.step = IntMax
  /\ obj.value = -3

====
